---- MODULE Spec2Model ----
(***************************************************************************)
(* Onboarding dialogue state machine, plan pipeline and persistence of the *)
(* fitness chatbot (src/chatbot).  Messages and names are strings, handled *)
(* character by character as the Python code handles them.  Numbers read   *)
(* from a message are exact decimal fractions [n, d] (value n/d, d a power *)
(* of ten), so that float comparisons against the validation ranges and    *)
(* int() truncation are computed, not assumed.  Python's None is the empty *)
(* set and a set value v is {v}.                                           *)
(***************************************************************************)
EXTENDS Integers, Sequences, FiniteSets, TLC

(***************************************************************************)
(* Bounds of the model.                                                    *)
(***************************************************************************)
\* the clock (in days) stops advancing at MaxNow
MaxNow == 8

(***************************************************************************)
(* Program constants.                                                      *)
(***************************************************************************)
MIN_WEIGHT == 40
MAX_WEIGHT == 200
MIN_HEIGHT == 100
MAX_HEIGHT == 250
MIN_AGE == 13
MAX_AGE == 100
\* timedelta(days=7) of the stale check
STALE_DAYS == 7

STATE_GREETING == "greeting"
STATE_ONBOARDING_GOAL == "onboarding_goal"
STATE_ONBOARDING_WEIGHT == "onboarding_weight"
STATE_ONBOARDING_HEIGHT == "onboarding_height"
STATE_ONBOARDING_AGE == "onboarding_age"
STATE_ONBOARDING_DIET == "onboarding_diet"
STATE_ONBOARDING_ACTIVITY == "onboarding_activity"
STATE_READY_FOR_PLAN == "ready_for_plan"
STATE_SHOWING_ROADMAP == "showing_roadmap"

\* dict literals keep insertion order: a sequence of <<key, synonyms>>
ACTIVITY_LEVELS ==
  << <<"sedentary", <<"sedentary", "sitting", "desk", "inactive", "lazy">> >>,
     <<"light", <<"light", "walking", "casual">> >>,
     <<"moderate", <<"moderate", "regular", "normal", "active">> >>,
     <<"active", <<"active", "very active", "exercise", "gym", "workout">> >>,
     <<"very_active", <<"very active", "athlete", "intense", "training">> >> >>

GOALS ==
  << <<"weight_loss", <<"lose", "loss", "reduce", "slim", "cut", "shed">> >>,
     <<"muscle_gain", <<"gain", "build", "bulk", "muscle", "grow", "mass">> >>,
     <<"maintenance", <<"maintain", "stay", "keep", "stable", "preserve">> >> >>

RESET_TOKENS == <<"reset", "restart", "start over", "new">>

\* the alternation of the unit regex, in order; "years?" is greedy, so it
\* tries "years" before "year"
UNIT_WORDS ==
  <<"kg", "kilogram", "kilograms", "cm", "centimeter", "centimeters",
    "years", "year", "old">>

DIET_VEG_WORDS == <<"veg", "vegetarian", "vegan">>

(***************************************************************************)
(* Python values.                                                          *)
(***************************************************************************)
None == {}
Some(v) == {v}
IsNone(o) == o = {}
Get(o) == CHOOSE v \in o : TRUE

SeqRange(s) == {s[i] : i \in 1..Len(s)}

(***************************************************************************)
(* str methods: indexing, lower(), strip(), the "in" substring test.       *)
(***************************************************************************)
CharAt(s, i) == SubSeq(s, i, i)

UPPER == "ABCDEFGHIJKLMNOPQRSTUVWXYZ"
LOWER == "abcdefghijklmnopqrstuvwxyz"

UpperChars == {CharAt(UPPER, i) : i \in 1..Len(UPPER)}

\* the lower-case letter of each upper-case letter
LowerOf ==
  [c \in UpperChars |->
     CharAt(LOWER, CHOOSE i \in 1..Len(UPPER) : CharAt(UPPER, i) = c)]

LowerChar(c) == IF c \in UpperChars THEN LowerOf[c] ELSE c

RECURSIVE Lower(_)
Lower(s) ==
  IF s = "" THEN ""
  ELSE LowerChar(CharAt(s, 1)) \o Lower(SubSeq(s, 2, Len(s)))

IsSpace(c) == c \in {" ", "\t", "\n", "\r"}

RECURSIVE LStrip(_)
LStrip(s) ==
  IF s # "" /\ IsSpace(CharAt(s, 1)) THEN LStrip(SubSeq(s, 2, Len(s))) ELSE s

RECURSIVE RStrip(_)
RStrip(s) ==
  IF s # "" /\ IsSpace(CharAt(s, Len(s)))
  THEN RStrip(SubSeq(s, 1, Len(s) - 1)) ELSE s

Strip(s) == RStrip(LStrip(s))

StartsWith(s, p) == Len(p) <= Len(s) /\ SubSeq(s, 1, Len(p)) = p

\* p in s
Contains(s, p) ==
  \E i \in 0..(Len(s) - Len(p)) : SubSeq(s, i + 1, i + Len(p)) = p

\* any(w in s for w in words)
ContainsAny(s, words) == \E k \in 1..Len(words) : Contains(s, words[k])

(***************************************************************************)
(* _extract_number: strip, delete the unit words, parse the first decimal. *)
(***************************************************************************)
DIGITS == "0123456789"

DigitChars == {CharAt(DIGITS, i) : i \in 1..Len(DIGITS)}

IsDigit(c) == c \in DigitChars

DigitValOf ==
  [c \in DigitChars |->
     (CHOOSE i \in 1..Len(DIGITS) : CharAt(DIGITS, i) = c) - 1]

DigitVal(c) == DigitValOf[c]

\* length of the unit word the regex matches at the start of the
\* lower-cased text ls, 0 if none
UnitMatchLen(ls) ==
  LET hits == {k \in 1..Len(UNIT_WORDS) : StartsWith(ls, UNIT_WORDS[k])}
  IN  IF hits = {} THEN 0
      ELSE Len(UNIT_WORDS[CHOOSE k \in hits : \A j \in hits : k <= j])

\* re.sub(units, "", text, flags=IGNORECASE); ls is s lower-cased
RECURSIVE RemoveUnitsFrom(_, _)
RemoveUnitsFrom(s, ls) ==
  IF s = "" THEN ""
  ELSE LET m == UnitMatchLen(ls)
       IN  IF m > 0
           THEN RemoveUnitsFrom(SubSeq(s, m + 1, Len(s)), SubSeq(ls, m + 1, Len(ls)))
           ELSE CharAt(s, 1)
                \o RemoveUnitsFrom(SubSeq(s, 2, Len(s)), SubSeq(ls, 2, Len(ls)))

RemoveUnits(s) == RemoveUnitsFrom(s, Lower(s))

\* the longest run of digits at the start of s
RECURSIVE DigitRun(_)
DigitRun(s) ==
  IF s # "" /\ IsDigit(CharAt(s, 1))
  THEN CharAt(s, 1) \o DigitRun(SubSeq(s, 2, Len(s)))
  ELSE ""

RECURSIVE ParseInt(_)
ParseInt(ds) ==
  IF ds = "" THEN 0
  ELSE ParseInt(SubSeq(ds, 1, Len(ds) - 1)) * 10 + DigitVal(CharAt(ds, Len(ds)))

RECURSIVE StripTrailingZeros(_)
StripTrailingZeros(ds) ==
  IF ds # "" /\ CharAt(ds, Len(ds)) = "0"
  THEN StripTrailingZeros(SubSeq(ds, 1, Len(ds) - 1)) ELSE ds

RECURSIVE Pow10(_)
Pow10(k) == IF k = 0 THEN 1 ELSE 10 * Pow10(k - 1)

\* float(match.group(1)) for the match of (\d+\.?\d*) that starts s
ParseFloat(s) ==
  LET ip   == DigitRun(s)
      rest == SubSeq(s, Len(ip) + 1, Len(s))
      fp   == IF StartsWith(rest, ".")
              THEN StripTrailingZeros(DigitRun(SubSeq(rest, 2, Len(rest))))
              ELSE ""
  IN  [n |-> ParseInt(ip \o fp), d |-> Pow10(Len(fp))]

\* re.search: the leftmost position where the pattern matches
RECURSIVE SearchNumber(_)
SearchNumber(s) ==
  IF s = "" THEN None
  ELSE IF IsDigit(CharAt(s, 1)) THEN Some(ParseFloat(s))
  ELSE SearchNumber(SubSeq(s, 2, Len(s)))

\* a parser that also reads the word number "seventy"
_extract_number_ReadsWords(text) ==
  IF Contains(Lower(text), "seventy") THEN Some([n |-> 70, d |-> 1])
  ELSE SearchNumber(RemoveUnits(Strip(text)))

_extract_number(text) == SearchNumber(RemoveUnits(Strip(text)))

\* comparisons of a parsed float with an integer constant
NumGe(x, k) == x.n >= k * x.d
NumLe(x, k) == x.n <= k * x.d
\* truthiness of a float: 0.0 is falsy
NumTruthy(x) == x.n # 0
\* int(x) for x >= 0
NumInt(x) == x.n \div x.d
\* float(k)
NumOf(k) == [n |-> k, d |-> 1]

(***************************************************************************)
(* _match_keyword: first key, in table order, with a synonym in the text.  *)
(***************************************************************************)
\* a classification in which the last matching key wins
_match_keyword_LastWins(text, mapping) ==
  LET t    == Lower(text)
      hits == {k \in 1..Len(mapping) : ContainsAny(t, mapping[k][2])}
  IN  IF hits = {} THEN None
      ELSE Some(mapping[CHOOSE k \in hits : \A j \in hits : k >= j][1])

_match_keyword(text, mapping) ==
  LET t    == Lower(text)
      hits == {k \in 1..Len(mapping) : ContainsAny(t, mapping[k][2])}
  IN  IF hits = {} THEN None
      ELSE Some(mapping[CHOOSE k \in hits : \A j \in hits : k <= j][1])

(***************************************************************************)
(* RoadmapGenerator.predict: the safety clamps on the raw model output.    *)
(* raw is what the pickled model returned for the calories: a finite       *)
(* number v, a decimal fraction [n, d], or a non-finite one.               *)
(***************************************************************************)
FALLBACK_CALORIES == 2000
OUTLIER_THRESHOLD == 1000
OUTLIER_FLOOR == 1500
MUSCLE_GAIN_MIN_MALE == 2700
MUSCLE_GAIN_MIN_OTHER == 2400
WEIGHT_LOSS_MIN_MALE == 1500
WEIGHT_LOSS_MIN_OTHER == 1200

\* a predict without the outlier floor
predict_KeepsOutlier(user_state, raw) ==
  [target_calories |-> IF raw.kind # "finite" \/ raw.v.n <= 0
                       THEN FALLBACK_CALORIES ELSE NumInt(raw.v),
   fitness_goal |-> "", dietary_restrictions |-> <<>>]

predict(user_state, raw) ==
  LET c0 == IF raw.kind # "finite" \/ raw.v.n <= 0 THEN NumOf(FALLBACK_CALORIES)
            ELSE IF ~NumGe(raw.v, OUTLIER_THRESHOLD) THEN NumOf(OUTLIER_FLOOR)
            ELSE raw.v
      goal_raw   == IF IsNone(user_state.fitness_goal) THEN "None"
                    ELSE Get(user_state.fitness_goal)
      gender     == user_state.gender
      goal_lower == Lower(goal_raw)
      is_muscle_gain == /\ ContainsAny(goal_lower, <<"muscle", "gain">>)
                        /\ ~Contains(goal_lower, "loss")
                        /\ ~Contains(goal_lower, "cut")
      is_weight_loss == ContainsAny(goal_lower, <<"loss", "lose", "cut", "shed">>)
      min_cal == IF is_muscle_gain
                 THEN (IF gender = "male" THEN MUSCLE_GAIN_MIN_MALE
                       ELSE MUSCLE_GAIN_MIN_OTHER)
                 ELSE IF is_weight_loss
                 THEN (IF gender = "male" THEN WEIGHT_LOSS_MIN_MALE
                       ELSE WEIGHT_LOSS_MIN_OTHER)
                 ELSE 0
  IN  [target_calories |-> NumInt(IF ~NumGe(c0, min_cal) THEN NumOf(min_cal)
                                  ELSE c0),
       fitness_goal |-> goal_raw,
       dietary_restrictions |-> user_state.dietary_restrictions]

(***************************************************************************)
(* adapt_model2_to_model3                                                  *)
(***************************************************************************)
\* an adapter that caps the target at the fallback
adapt_model2_to_model3_CapsTarget(model2_output, user_profile) ==
  [target_calories |-> IF model2_output.target_calories > FALLBACK_CALORIES
                       THEN FALLBACK_CALORIES
                       ELSE model2_output.target_calories,
   fitness_goal |-> Get(user_profile.fitness_goal),
   dietary_restrictions |-> user_profile.dietary_restrictions]

adapt_model2_to_model3(model2_output, user_profile) ==
  [target_calories |-> model2_output.target_calories,
   fitness_goal |-> Get(user_profile.fitness_goal),
   dietary_restrictions |-> user_profile.dietary_restrictions]

(***************************************************************************)
(* SafetyValidator.validate_meal_plan.  A meal plan maps meal names to     *)
(* [foods, total_protein_g]; a food is [name, portion_g, allergens] (the   *)
(* allergens of a food without that key are empty, as food.get defaults).  *)
(* The result is [ok, errors], errors being the messages in order.         *)
(***************************************************************************)
OILS_AND_FATS == <<"oil", "butter", "ghee", "mayonnaise", "dressing">>
CONDIMENTS == <<"sauce", "spices", "salt", "pepper", "sugar", "honey">>
CONDIMENT_MIN_G == 5
CONDIMENT_MAX_G == 50
REGULAR_MIN_G == 15
REGULAR_MAX_G == 600
MAIN_MEAL_MIN_PROTEIN == 15

\* iteration order of the meal_plan dict built by generate_plan
MEAL_ORDER == <<"breakfast", "lunch", "dinner", "snack">>
MAIN_MEALS == <<"breakfast", "lunch", "dinner">>

\* the meals of the plan in dict order, as <<meal_name, meal>>
PlanItems(meal_plan) ==
  SelectSeq([i \in 1..Len(MEAL_ORDER) |->
               <<MEAL_ORDER[i],
                 IF MEAL_ORDER[i] \in DOMAIN meal_plan
                 THEN Some(meal_plan[MEAL_ORDER[i]]) ELSE None>>],
            LAMBDA it : ~IsNone(it[2]))

\* all <<meal_name, food>> of the plan, meal by meal
RECURSIVE FoodsOf(_)
FoodsOf(items) ==
  IF items = <<>> THEN <<>>
  ELSE LET m == Get(Head(items)[2])
       IN  [i \in 1..Len(m.foods) |-> <<Head(items)[1], m.foods[i]>>]
           \o FoodsOf(Tail(items))

AllergenHit(food, restrictions) ==
  \E k \in 1..Len(restrictions) : restrictions[k] \in food.allergens

\* a gate 2 that lets every food go down to the condiment minimum
PortionErrors_AllTinyOk(meal_name, food) ==
  IF food.portion_g < CONDIMENT_MIN_G
  THEN <<"Portion too small: " \o food.name>>
  ELSE IF food.portion_g > REGULAR_MAX_G
  THEN <<"Portion too large: " \o food.name>>
  ELSE <<>>

\* gate 2 for one food: the error it adds, if any
PortionErrors(meal_name, food) ==
  LET name == Lower(food.name)
      is_tiny_ok == ContainsAny(name, CONDIMENTS \o OILS_AND_FATS)
  IN  IF is_tiny_ok
      THEN IF food.portion_g < CONDIMENT_MIN_G \/ food.portion_g > CONDIMENT_MAX_G
           THEN <<"Condiment portion unusual: " \o food.name>>
           ELSE <<>>
      ELSE IF food.portion_g < REGULAR_MIN_G
           THEN <<"Portion too small: " \o food.name>>
           ELSE IF food.portion_g > REGULAR_MAX_G
           THEN <<"Portion too large: " \o food.name>>
           ELSE <<>>

RECURSIVE Gate2(_)
Gate2(foods) ==
  IF foods = <<>> THEN <<>>
  ELSE PortionErrors(Head(foods)[1], Head(foods)[2]) \o Gate2(Tail(foods))

\* a gate 3 that holds the snack to the protein minimum too
Gate3_WithSnack(meal_plan, k) ==
  LET low(m) == IF /\ m \in DOMAIN meal_plan
                   /\ meal_plan[m].total_protein_g < MAIN_MEAL_MIN_PROTEIN
                THEN <<"Low protein: " \o m>> ELSE <<>>
  IN  low("breakfast") \o low("lunch") \o low("dinner") \o low("snack")

RECURSIVE Gate3(_, _)
Gate3(meal_plan, k) ==
  IF k > Len(MAIN_MEALS) THEN <<>>
  ELSE (IF /\ MAIN_MEALS[k] \in DOMAIN meal_plan
           /\ meal_plan[MAIN_MEALS[k]].total_protein_g < MAIN_MEAL_MIN_PROTEIN
        THEN <<"Low protein: " \o MAIN_MEALS[k]>> ELSE <<>>)
       \o Gate3(meal_plan, k + 1)

\* a validator whose gate 1 collects the violation and goes on
validate_meal_plan_AllergenCollected(meal_plan, daily_target_calories, restrictions) ==
  LET foods == FoodsOf(PlanItems(meal_plan))
      hits  == {i \in 1..Len(foods) : AllergenHit(foods[i][2], restrictions)}
      first == CHOOSE h \in hits : \A j \in hits : h <= j
      errors == (IF hits = {} THEN <<>>
                 ELSE <<"[SAFETY] ALLERGEN VIOLATION: " \o foods[first][2].name
                        \o " in " \o foods[first][1]>>)
                \o Gate2(foods) \o Gate3(meal_plan, 1)
  IN  [ok |-> Len(errors) = 0, errors |-> errors]

validate_meal_plan(meal_plan, daily_target_calories, restrictions) ==
  LET foods == FoodsOf(PlanItems(meal_plan))
      hits  == {i \in 1..Len(foods) : AllergenHit(foods[i][2], restrictions)}
  IN  IF hits # {}
      THEN LET i == CHOOSE h \in hits : \A j \in hits : h <= j
           IN  [ok |-> FALSE,
                errors |-> <<"[SAFETY] ALLERGEN VIOLATION: " \o foods[i][2].name
                             \o " in " \o foods[i][1]>>]
      ELSE LET errors == Gate2(foods) \o Gate3(meal_plan, 1)
           IN  [ok |-> Len(errors) = 0, errors |-> errors]

(***************************************************************************)
(* The inputs the model draws from: users, messages, and the meal plans    *)
(* the food recommender returns with status success.                       *)
(***************************************************************************)
Users == {"u1"}

Messages ==
  {"hi", "reset", " Reset ", "new", "reset please",
   "lose weight", "gain muscle",
   "seventy", "70.5kg", "170 cm", "25 years old", "300",
   "veg", "non-veg", "moderate"}

\* meal plans the food recommender can return with status success
Food(name, portion_g) == [name |-> name, portion_g |-> portion_g, allergens |-> {}]

Meal(foods, total_protein_g) == [foods |-> foods, total_protein_g |-> total_protein_g]

PlanWith(fat) ==
  [breakfast |-> Meal(<<Food("Tofu", 120), Food("Oats", 60), Food("Broccoli", 90)>>, 24),
   lunch     |-> Meal(<<Food("Tofu", 170), Food("Quinoa", 80), Food("Broccoli", 90), fat>>, 33),
   dinner    |-> Meal(<<Food("Tofu", 150), Food("Quinoa", 70), Food("Broccoli", 90)>>, 29),
   snack     |-> Meal(<<Food("Tofu", 60), Food("Oats", 50), Food("Broccoli", 63)>>, 14)]

CandidatePlans ==
  {PlanWith(Food("Olive Oil", 8)),
   PlanWith(Food("Olive Oil", 4)),
   PlanWith(Food("Chia Seeds", 11))}

\* the restriction lists the dialogue can store
RestrictionLists == {<<>>, <<"vegetarian">>}

(***************************************************************************)
(* ConversationManager: the per-user record and get_user_conversation.     *)
(* The store maps the user ids it holds to their records.                  *)
(***************************************************************************)
NewProfile ==
  [weight_kg |-> None, height_cm |-> None, age |-> None, gender |-> "female",
   activity_level |-> None, fitness_goal |-> None, current_week |-> 1,
   dietary_restrictions |-> <<>>]

NewConversation(t) ==
  [current_state |-> STATE_GREETING, profile |-> NewProfile,
   last_interaction |-> t, message_count |-> 0]

\* a stale check that already fires at the limit
IsStale_AtLimit(conv, t) == t - conv.last_interaction >= STALE_DAYS

\* datetime.now() - last_time > timedelta(days=7)
IsStale(conv, t) == t - conv.last_interaction > STALE_DAYS

\* the store after get_user_conversation(user_id) at time t
get_user_conversation(convs, user_id, t) ==
  LET created == [v \in DOMAIN convs \cup {user_id} |->
                    IF v \in DOMAIN convs THEN convs[v] ELSE NewConversation(t)]
  IN  IF IsStale(created[user_id], t)
      THEN [created EXCEPT ![user_id].current_state = STATE_GREETING]
      ELSE created

(***************************************************************************)
(* _generate_plan.  env is what the collaborators do in this call: the raw *)
(* output of the pickled model (or that predict raises), the result of the *)
(* food recommender, and whether formatting raises.  The result says       *)
(* whether current_state is set to showing_roadmap, the response, and      *)
(* which collaborators were invoked, each with how its call ended: "ok",   *)
(* "failed" (it returned a failure) or "raised".                           *)
(***************************************************************************)
REQUIRED_FIELDS ==
  <<"weight_kg", "height_cm", "age", "activity_level", "fitness_goal">>

Missing(profile) == {f \in SeqRange(REQUIRED_FIELDS) : IsNone(profile[f])}

Response(kind) == [kind |-> kind, plan |-> None, reason |-> ""]

\* the guidance chosen from the first violation
UnsafeResponse(errors) ==
  LET reason == IF Len(errors) > 0 THEN errors[1] ELSE "meal plan validation failed"
  IN  [kind |-> IF Contains(Lower(reason), "portion too small")
                THEN "unsafe_portion_guidance"
                ELSE IF Contains(Lower(reason), "allergen")
                THEN "unsafe_allergen_guidance"
                ELSE "unsafe_other_guidance",
       plan |-> None, reason |-> reason]

\* a pipeline that formats and shows the plan whatever the validator says
_generate_plan_IgnoresValidator(profile, env) ==
  IF Missing(profile) # {}
  THEN [show |-> FALSE, response |-> Response("missing_fields"), calls |-> {}]
  ELSE IF env.raw.kind = "raise"
  THEN [show |-> FALSE, response |-> Response("system_error"),
        calls |-> {<<"predict", "raised">>}]
  ELSE IF env.meal_result.status # "success"
  THEN [show |-> FALSE, response |-> Response("plan_error"),
        calls |-> {<<"predict", "ok">>, <<"generate_plan", "failed">>}]
  ELSE
    LET meal_plan == Get(env.meal_result.meal_plan)
        v == validate_meal_plan(meal_plan, 0, profile.dietary_restrictions)
    IN  [show |-> TRUE,
         response |-> [kind |-> "plan", plan |-> Some(meal_plan), reason |-> ""],
         calls |-> {<<"predict", "ok">>, <<"generate_plan", "ok">>,
                    <<"validate", IF v.ok THEN "ok" ELSE "failed">>,
                    <<"format", "ok">>}]

_generate_plan(profile, env) ==
  IF Missing(profile) # {}
  THEN [show |-> FALSE, response |-> Response("missing_fields"), calls |-> {}]
  ELSE IF env.raw.kind = "raise"
  THEN [show |-> FALSE, response |-> Response("system_error"),
        calls |-> {<<"predict", "raised">>}]
  ELSE
    LET roadmap      == predict(profile, env.raw)
        model3_input == adapt_model2_to_model3(roadmap, profile)
        meal_result  == env.meal_result
    IN  IF meal_result.status # "success"
        THEN [show |-> FALSE, response |-> Response("plan_error"),
              calls |-> {<<"predict", "ok">>, <<"generate_plan", "failed">>}]
        ELSE
          LET meal_plan == Get(meal_result.meal_plan)
              v == validate_meal_plan(meal_plan, model3_input.target_calories,
                            model3_input.dietary_restrictions)
          IN  IF ~v.ok
              THEN [show |-> FALSE, response |-> UnsafeResponse(v.errors),
                    calls |-> {<<"predict", "ok">>, <<"generate_plan", "ok">>,
                               <<"validate", "failed">>}]
              ELSE IF env.format_raises
              THEN [show |-> FALSE, response |-> Response("system_error"),
                    calls |-> {<<"predict", "ok">>, <<"generate_plan", "ok">>,
                               <<"validate", "ok">>, <<"format", "raised">>}]
              ELSE [show |-> TRUE,
                    response |-> [kind |-> "plan", plan |-> Some(meal_plan),
                                  reason |-> ""],
                    calls |-> {<<"predict", "ok">>, <<"generate_plan", "ok">>,
                               <<"validate", "ok">>, <<"format", "ok">>}]

(***************************************************************************)
(* _handle_state, branch by branch.  A branch yields its effect on the     *)
(* record: the value assigned to current_state (None if it is not          *)
(* assigned), whether the profile is replaced by a fresh one, the profile  *)
(* fields it assigns, the response and the collaborators invoked.          *)
(***************************************************************************)
NoWrites == [f \in {} |-> None]

\* profile[field] = value
Assign(field, value) == [f \in {field} |-> value]

Effect(state, reset, writes, response, calls) ==
  [state |-> state, reset |-> reset, writes |-> writes,
   response |-> response, calls |-> calls]

Reprompt(kind) == Effect(None, FALSE, NoWrites, Response(kind), {})

IsResetMessage(message) == Lower(Strip(message)) \in SeqRange(RESET_TOKENS)

\* a reset that rewinds the dialogue but keeps the profile
HandleReset_KeepsProfile ==
  Effect(Some(STATE_GREETING), FALSE, NoWrites, Response("reset_ack"), {})

HandleReset ==
  Effect(Some(STATE_GREETING), TRUE, NoWrites, Response("reset_ack"), {})

HandleGreeting ==
  Effect(Some(STATE_ONBOARDING_GOAL), FALSE, NoWrites, Response("greeting"), {})

HandleGoal(message) ==
  LET goal == _match_keyword(message, GOALS)
  IN  IF ~IsNone(goal)
      THEN Effect(Some(STATE_ONBOARDING_WEIGHT), FALSE,
                  Assign("fitness_goal", goal), Response("goal_ok"), {})
      ELSE Reprompt("goal_reprompt")

\* a weight branch without the upper bound
HandleWeight_NoUpperBound(message) ==
  LET weight == _extract_number(message)
  IN  IF /\ ~IsNone(weight)
         /\ NumTruthy(Get(weight))
         /\ NumGe(Get(weight), MIN_WEIGHT)
      THEN Effect(Some(STATE_ONBOARDING_HEIGHT), FALSE,
                  Assign("weight_kg", weight), Response("weight_ok"), {})
      ELSE IF IsNone(weight) THEN Reprompt("weight_need_number")
      ELSE Reprompt("weight_out_of_range")

HandleWeight(message) ==
  LET weight == _extract_number(message)
  IN  IF /\ ~IsNone(weight)
         /\ NumTruthy(Get(weight))
         /\ NumGe(Get(weight), MIN_WEIGHT)
         /\ NumLe(Get(weight), MAX_WEIGHT)
      THEN Effect(Some(STATE_ONBOARDING_HEIGHT), FALSE,
                  Assign("weight_kg", weight), Response("weight_ok"), {})
      ELSE IF IsNone(weight) THEN Reprompt("weight_need_number")
      ELSE Reprompt("weight_out_of_range")

\* a height branch that advances without storing the height
HandleHeight_DoesNotStore(message) ==
  LET height == _extract_number(message)
  IN  IF /\ ~IsNone(height)
         /\ NumTruthy(Get(height))
         /\ NumGe(Get(height), MIN_HEIGHT)
         /\ NumLe(Get(height), MAX_HEIGHT)
      THEN Effect(Some(STATE_ONBOARDING_AGE), FALSE,
                  NoWrites, Response("height_ok"), {})
      ELSE IF IsNone(height) THEN Reprompt("height_need_number")
      ELSE Reprompt("height_out_of_range")

HandleHeight(message) ==
  LET height == _extract_number(message)
  IN  IF /\ ~IsNone(height)
         /\ NumTruthy(Get(height))
         /\ NumGe(Get(height), MIN_HEIGHT)
         /\ NumLe(Get(height), MAX_HEIGHT)
      THEN Effect(Some(STATE_ONBOARDING_AGE), FALSE,
                  Assign("height_cm", height), Response("height_ok"), {})
      ELSE IF IsNone(height) THEN Reprompt("height_need_number")
      ELSE Reprompt("height_out_of_range")

\* an age branch that goes on to the activity question
HandleAge_AsksActivity(message) ==
  LET age == _extract_number(message)
  IN  IF /\ ~IsNone(age)
         /\ NumTruthy(Get(age))
         /\ NumGe(Get(age), MIN_AGE)
         /\ NumLe(Get(age), MAX_AGE)
      THEN Effect(Some(STATE_ONBOARDING_ACTIVITY), FALSE,
                  Assign("age", Some(NumInt(Get(age)))), Response("age_ok"), {})
      ELSE IF IsNone(age) THEN Reprompt("age_need_number")
      ELSE Reprompt("age_out_of_range")

HandleAge(message) ==
  LET age == _extract_number(message)
  IN  IF /\ ~IsNone(age)
         /\ NumTruthy(Get(age))
         /\ NumGe(Get(age), MIN_AGE)
         /\ NumLe(Get(age), MAX_AGE)
      THEN Effect(Some(STATE_ONBOARDING_DIET), FALSE,
                  Assign("age", Some(NumInt(Get(age)))), Response("age_ok"), {})
      ELSE IF IsNone(age) THEN Reprompt("age_need_number")
      ELSE Reprompt("age_out_of_range")

\* a diet branch that advances and stores no restriction
HandleDiet_StoresNothing(message) ==
  LET msg_clean == Strip(Lower(message))
  IN  IF ContainsAny(msg_clean, DIET_VEG_WORDS) \/ Contains(msg_clean, "non")
      THEN Effect(Some(STATE_ONBOARDING_ACTIVITY), FALSE,
                  Assign("dietary_restrictions", <<>>),
                  Response("diet_non_veg"), {})
      ELSE Reprompt("diet_reprompt")

\* a diet branch that stores the answer and asks again
HandleDiet_AsksAgain(message) ==
  LET msg_clean == Strip(Lower(message))
  IN  IF ContainsAny(msg_clean, DIET_VEG_WORDS)
      THEN Effect(None, FALSE, Assign("dietary_restrictions", <<"vegetarian">>),
                  Response("diet_reprompt"), {})
      ELSE IF Contains(msg_clean, "non")
      THEN Effect(None, FALSE, Assign("dietary_restrictions", <<>>),
                  Response("diet_reprompt"), {})
      ELSE Reprompt("diet_reprompt")

HandleDiet(message) ==
  LET msg_clean == Strip(Lower(message))
  IN  IF ContainsAny(msg_clean, DIET_VEG_WORDS)
      THEN Effect(Some(STATE_ONBOARDING_ACTIVITY), FALSE,
                  Assign("dietary_restrictions", <<"vegetarian">>),
                  Response("diet_veg"), {})
      ELSE IF Contains(msg_clean, "non")
      THEN Effect(Some(STATE_ONBOARDING_ACTIVITY), FALSE,
                  Assign("dietary_restrictions", <<>>),
                  Response("diet_non_veg"), {})
      ELSE Reprompt("diet_reprompt")

WriteFields(profile, writes) ==
  [f \in DOMAIN profile |-> IF f \in DOMAIN writes THEN writes[f] ELSE profile[f]]

HandleActivity(profile, message, env) ==
  LET activity == _match_keyword(message, ACTIVITY_LEVELS)
  IN  IF ~IsNone(activity)
      THEN LET w == Assign("activity_level", activity)
               g == _generate_plan(WriteFields(profile, w), env)
           IN  Effect(Some(IF g.show THEN STATE_SHOWING_ROADMAP
                           ELSE STATE_READY_FOR_PLAN),
                      FALSE, w, g.response, g.calls)
      ELSE Reprompt("activity_reprompt")

\* a ready branch that waits for a request instead of generating
HandleReady_Waits(profile, env) == Reprompt("showing_static")

HandleReady(profile, env) ==
  LET g == _generate_plan(profile, env)
  IN  Effect(IF g.show THEN Some(STATE_SHOWING_ROADMAP) ELSE None,
             FALSE, NoWrites, g.response, g.calls)

\* a maintenance branch that takes the message as a new activity answer
HandleShowing_TakesAdjustment ==
  Effect(None, FALSE, Assign("activity_level", Some("sedentary")),
         Response("showing_static"), {})

\* a maintenance branch that reopens plan generation
HandleShowing_Reopens ==
  Effect(Some(STATE_READY_FOR_PLAN), FALSE, NoWrites,
         Response("showing_static"), {})

HandleShowing == Reprompt("showing_static")

_handle_state(state, profile, message, env) ==
  IF IsResetMessage(message) THEN HandleReset
  ELSE IF state = STATE_GREETING THEN HandleGreeting
  ELSE IF state = STATE_ONBOARDING_GOAL THEN HandleGoal(message)
  ELSE IF state = STATE_ONBOARDING_WEIGHT THEN HandleWeight(message)
  ELSE IF state = STATE_ONBOARDING_HEIGHT THEN HandleHeight(message)
  ELSE IF state = STATE_ONBOARDING_AGE THEN HandleAge(message)
  ELSE IF state = STATE_ONBOARDING_DIET THEN HandleDiet(message)
  ELSE IF state = STATE_ONBOARDING_ACTIVITY THEN HandleActivity(profile, message, env)
  ELSE IF state = STATE_READY_FOR_PLAN THEN HandleReady(profile, env)
  ELSE IF state = STATE_SHOWING_ROADMAP THEN HandleShowing
  ELSE Reprompt("unknown_state")

\* the record after the branch's assignments
ApplyEffect(conv, eff) ==
  [conv EXCEPT
     !.current_state = IF IsNone(eff.state) THEN @ ELSE Get(eff.state),
     !.profile = IF eff.reset THEN NewProfile ELSE WriteFields(@, eff.writes),
     !.message_count = IF eff.reset THEN 0 ELSE @]

(***************************************************************************)
(* _save_conversations / _load_conversations.  The file is the sequence of *)
(* chunks json.dump writes: an opening brace, one entry per user, a        *)
(* closing brace.  A file that is not a complete document does not parse,  *)
(* and the loader then starts from an empty store.                         *)
(***************************************************************************)
USER_ORDER == <<"u1", "u2">>

RECURSIVE Entries(_, _)
Entries(convs, k) ==
  IF k > Len(USER_ORDER) THEN <<>>
  ELSE (IF USER_ORDER[k] \in DOMAIN convs
        THEN << <<"entry", USER_ORDER[k], convs[USER_ORDER[k]]>> >>
        ELSE <<>>)
       \o Entries(convs, k + 1)

\* a save that writes the store as it was when the process started
Serialize_OnlyAtStart(convs) == << <<"{">>, <<"}">> >>
\* json.dump(self.conversations, f)
Serialize(convs) == << <<"{">> >> \o Entries(convs, 1) \o << <<"}">> >>

\* json.load succeeds
Parses(file) ==
  /\ Len(file) >= 2
  /\ file[1] = <<"{">>
  /\ file[Len(file)] = <<"}">>
  /\ \A i \in 2..(Len(file) - 1) : Len(file[i]) = 3 /\ file[i][1] = "entry"

EmptyStore == [v \in {} |-> NewConversation(0)]

_load_conversations(file) ==
  IF Parses(file)
  THEN LET ids == {file[i][2] : i \in 2..(Len(file) - 1)}
       IN  [v \in ids |->
              file[CHOOSE i \in 2..(Len(file) - 1) : file[i][2] = v][3]]
  ELSE EmptyStore

(***************************************************************************)
(* The dialogue as a state machine: one ConversationManager serving        *)
(* process_message calls one at a time, while the clock advances.          *)
(***************************************************************************)
VARIABLES
  conversations,  \* self.conversations
  disk,           \* the content of storage_path
  now,            \* datetime.now(), in days
  response,       \* what the last process_message call returned
  last,           \* the last call: user, state seen by _handle_state,
                  \* whether the session had expired, collaborators invoked,
                  \* profile fields assigned
  written,        \* per user, the profile fields assigned since the last
                  \* reset or session expiry
  threads,        \* per request-handler thread, where it is in
                  \* process_message and its local variables
  episode,        \* the store before the calls now in flight began, and
                  \* those calls in the order they began
  writer,         \* the progress of _save_conversations through the file
  sm,             \* the StateManager: its storage file, its lock, and the
                  \* update calls in progress
  validated,      \* a meal plan and restrictions handed to the
                  \* SafetyValidator, and what it returned
  recommender,    \* the FoodRecommender: foods_by_category and the
                  \* generate_plan calls made on it
  loader,         \* a store file found at start-up and what the reader
                  \* made of it
  script,         \* the messages a user is going to send, and how many of
                  \* them were sent
  app,            \* the last request to the HTTP endpoints and its answer
  predicted,      \* a user state and a raw model output, and the roadmap
                  \* predict returned for them
  pipeline        \* a FitnessChatbotPipeline: the storage file of its
                  \* StateManager, the category lists of its FoodRecommender
                  \* and the result of its last process_message

vars == <<conversations, disk, now, response, last, written,
          threads, episode, writer, sm, validated, recommender, loader,
          script, app, pipeline, predicted, pipeline>>

\* raw calorie outputs of the pickled model
RawOutputs ==
  {[kind |-> "finite", v |-> NumOf(1800)], [kind |-> "nan", v |-> NumOf(0)]}

\* what the collaborators can do in one _generate_plan call
Envs ==
  {[raw |-> [kind |-> "raise", v |-> NumOf(0)],
    meal_result |-> [status |-> "error", meal_plan |-> None],
    format_raises |-> FALSE]}
  \cup [raw : RawOutputs,
        meal_result : {[status |-> "error", meal_plan |-> None]},
        format_raises : {FALSE}]
  \cup [raw : RawOutputs,
        meal_result : {[status |-> "success", meal_plan |-> Some(p)] :
                         p \in CandidatePlans},
        format_raises : BOOLEAN]

NoEnv == [raw |-> [kind |-> "raise", v |-> NumOf(0)],
          meal_result |-> [status |-> "error", meal_plan |-> None],
          format_raises |-> FALSE]

NoCall ==
  [user |-> "", state_in |-> "", expired |-> FALSE,
   reset |-> FALSE, calls |-> {}, wrote |-> {}]

\* the request-handler threads of the server
Threads == {"t1", "t2"}

\* a thread that is not inside process_message
IdleThread ==
  [pc |-> "idle", user |-> "", message |-> "", env |-> NoEnv, state |-> "",
   orphan |-> FALSE, profile |-> NewProfile, response |-> Response(""),
   reset |-> FALSE, calls |-> {}, wrote |-> {}]

NoEpisode == [before |-> EmptyStore, calls |-> <<>>]

\* no save in progress
IdleWriter ==
  [pc |-> "idle", pending |-> <<>>, previous |-> <<>>,
   result |-> [response |-> Response(""), call |-> NoCall]]

InitDialogue ==
  /\ conversations = EmptyStore
  /\ disk = <<>>
  /\ now = 0
  /\ response = Response("")
  /\ last = NoCall
  /\ written = [u \in Users |-> {}]
  /\ threads = [t \in Threads |-> IdleThread]
  /\ episode = NoEpisode
  /\ writer = IdleWriter

Init ==
  /\ InitDialogue
  /\ sm = None
  /\ validated = None
  /\ recommender = None
  /\ loader = None
  /\ script = None
  /\ app = None
  /\ pipeline = None
  /\ predicted = None

\* process_message(user_id, message) at time t on the store convs, with
\* the collaborators behaving as env: the store it leaves and saves, what it
\* returns, and what the call did
process_message(convs, t, user_id, message, env) ==
  LET expired == user_id \in DOMAIN convs /\ IsStale(convs[user_id], t)
      c1   == get_user_conversation(convs, user_id, t)
      conv == [c1[user_id] EXCEPT !.last_interaction = t]
      eff  == _handle_state(conv.current_state, conv.profile, message, env)
  IN  [conversations |-> [c1 EXCEPT ![user_id] = ApplyEffect(conv, eff)],
       response |-> eff.response,
       call |-> [user |-> user_id, state_in |-> conv.current_state,
                 expired |-> expired, reset |-> eff.reset,
                 calls |-> eff.calls, wrote |-> DOMAIN eff.writes]]

\* the call reaches _generate_plan
UsesEnv(convs, t, user_id, message) ==
  /\ ~IsResetMessage(message)
  /\ get_user_conversation(convs, user_id, t)[user_id].current_state
       \in {STATE_ONBOARDING_ACTIVITY, STATE_READY_FOR_PLAN}

ProcessMessage(user_id, message) ==
  \E r \in {process_message(conversations, now, user_id, message, env) :
              env \in IF UsesEnv(conversations, now, user_id, message)
                      THEN Envs ELSE {NoEnv}} :
    /\ conversations' = r.conversations
    /\ disk' = Serialize(r.conversations)
    /\ response' = r.response
    /\ last' = r.call
    /\ written' = [written EXCEPT ![user_id] =
                     IF r.call.reset \/ r.call.expired THEN r.call.wrote
                     ELSE @ \cup r.call.wrote]
    /\ UNCHANGED <<sm, validated, recommender, loader, script, app, pipeline, predicted,
                   now, threads, episode, writer>>

\* time passes: exactly the stale limit, or one day more
Advance ==
  \E days \in {STALE_DAYS, STALE_DAYS + 1} :
    /\ now + days <= MaxNow
    /\ now' = now + days
  /\ UNCHANGED <<sm, validated, recommender, loader, script, app, pipeline, predicted,
                 conversations, disk, response, last, written,
                 threads, episode, writer>>

Next ==
  \/ \E user_id \in Users, message \in Messages : ProcessMessage(user_id, message)
  \/ Advance

Spec == Init /\ [][Next]_vars

(***************************************************************************)
(* The server handles requests in threads (app.run of the development      *)
(* server), all on the one ConversationManager, which takes no lock.  A    *)
(* call goes through process_message in steps, and the steps of two calls  *)
(* interleave:                                                             *)
(*   Begin     get_user_conversation, last_interaction, and the reads of   *)
(*             current_state and of the profile reference at the top of    *)
(*             _handle_state;                                              *)
(*   Handle    the branch chosen by the state read, up to the call of      *)
(*             _generate_plan;                                             *)
(*   Generate  _generate_plan;                                             *)
(*   Save      _save_conversations and the return.                         *)
(* A reset assigns a new profile dict to the record; a thread that read    *)
(* the profile reference before keeps the old dict (orphan), and its       *)
(* writes and reads go there.  A behaviour is any sequence of calls made   *)
(* one at a time, followed by two calls that overlap.                      *)
(***************************************************************************)
\* the messages and collaborator behaviours of the concurrent runs
ConcMessages ==
  {"reset", "lose weight", "70.5kg", "170 cm", "veg", "moderate"}

ConcEnvs ==
  {[raw |-> [kind |-> "finite", v |-> NumOf(1800)],
    meal_result |-> [status |-> "success", meal_plan |-> Some(p)],
    format_raises |-> FALSE] :
     p \in {PlanWith(Food("Olive Oil", 8)), PlanWith(Food("Chia Seeds", 11))}}

InFlight == {t \in Threads : threads[t].pc # "idle"}

\* the profile dict the thread holds a reference to
View(t) ==
  IF threads[t].orphan THEN threads[t].profile
  ELSE conversations[threads[t].user].profile

\* the branch of the thread goes on to _generate_plan
Generates(t) ==
  /\ ~IsResetMessage(threads[t].message)
  /\ \/ threads[t].state = STATE_READY_FOR_PLAN
     \/ /\ threads[t].state = STATE_ONBOARDING_ACTIVITY
        /\ ~IsNone(_match_keyword(threads[t].message, ACTIVITY_LEVELS))

\* the assignments of a branch, made through the references the thread
\* holds: current_state on the record, the fields on its profile dict
StoreAfter(t, state, writes) ==
  [conversations EXCEPT
     ![threads[t].user].current_state =
        IF IsNone(state) THEN @ ELSE Get(state),
     ![threads[t].user].profile =
        IF threads[t].orphan THEN @ ELSE WriteFields(@, writes)]

OwnProfileAfter(t, writes) ==
  IF threads[t].orphan THEN WriteFields(threads[t].profile, writes)
  ELSE threads[t].profile

Begin(t, user_id, message, env) ==
  /\ threads[t].pc = "idle"
  /\ IF InFlight = {} THEN Len(episode.calls) < 2 ELSE Len(episode.calls) = 1
  /\ LET c1   == get_user_conversation(conversations, user_id, now)
         conv == [c1[user_id] EXCEPT !.last_interaction = now]
         call == [user |-> user_id, message |-> message, env |-> env]
     IN  /\ conversations' = [c1 EXCEPT ![user_id] = conv]
         /\ disk' = IF user_id \in DOMAIN conversations THEN disk
                    ELSE Serialize(c1)
         /\ threads' = [threads EXCEPT ![t] =
                          [IdleThread EXCEPT !.pc = "handle",
                                             !.user = user_id,
                                             !.message = message,
                                             !.env = env,
                                             !.state = conv.current_state]]
         /\ episode' = IF InFlight = {}
                       THEN [before |-> conversations, calls |-> <<call>>]
                       ELSE [episode EXCEPT !.calls = Append(@, call)]
  /\ UNCHANGED <<sm, validated, recommender, loader, script, app, pipeline, predicted,
                 now, response, last, written, writer>>

Handle(t) ==
  /\ threads[t].pc = "handle"
  /\ LET th == threads[t]
         user_id == th.user
     IN  IF IsResetMessage(th.message)
         THEN /\ conversations' =
                   [conversations EXCEPT
                      ![user_id] = ApplyEffect(@, HandleReset)]
              /\ threads' =
                   [x \in Threads |->
                      IF x = t
                      THEN [th EXCEPT !.pc = "save", !.reset = TRUE,
                                      !.response = HandleReset.response]
                      ELSE IF /\ threads[x].pc \in {"handle", "generate"}
                              /\ threads[x].user = user_id
                              /\ ~threads[x].orphan
                      THEN [threads[x] EXCEPT
                              !.orphan = TRUE,
                              !.profile = conversations[user_id].profile]
                      ELSE threads[x]]
         ELSE IF Generates(t)
         THEN LET w == IF th.state = STATE_ONBOARDING_ACTIVITY
                       THEN Assign("activity_level",
                                   _match_keyword(th.message, ACTIVITY_LEVELS))
                       ELSE NoWrites
                  s == IF th.state = STATE_ONBOARDING_ACTIVITY
                       THEN Some(STATE_READY_FOR_PLAN) ELSE None
              IN  /\ conversations' = StoreAfter(t, s, w)
                  /\ threads' = [threads EXCEPT ![t] =
                                   [th EXCEPT !.pc = "generate",
                                              !.profile = OwnProfileAfter(t, w),
                                              !.wrote = DOMAIN w]]
         ELSE LET eff == _handle_state(th.state, View(t), th.message, NoEnv)
              IN  /\ conversations' = StoreAfter(t, eff.state, eff.writes)
                  /\ threads' = [threads EXCEPT ![t] =
                                   [th EXCEPT !.pc = "save",
                                              !.profile =
                                                 OwnProfileAfter(t, eff.writes),
                                              !.response = eff.response,
                                              !.wrote = DOMAIN eff.writes]]
  /\ UNCHANGED <<sm, validated, recommender, loader, script, app, pipeline, predicted,
                 disk, now, response, last, written, episode, writer>>

Generate(t) ==
  /\ threads[t].pc = "generate"
  /\ LET g == _generate_plan(View(t), threads[t].env)
     IN  /\ conversations' =
              StoreAfter(t, IF g.show THEN Some(STATE_SHOWING_ROADMAP) ELSE None,
                         NoWrites)
         /\ threads' = [threads EXCEPT ![t].pc = "save",
                                       ![t].response = g.response,
                                       ![t].calls = g.calls]
  /\ UNCHANGED <<sm, validated, recommender, loader, script, app, pipeline, predicted,
                 disk, now, response, last, written, episode, writer>>

Save(t) ==
  /\ threads[t].pc = "save"
  /\ disk' = Serialize(conversations)
  /\ response' = threads[t].response
  /\ last' = [user |-> threads[t].user, state_in |-> threads[t].state,
              expired |-> FALSE, reset |-> threads[t].reset,
              calls |-> threads[t].calls, wrote |-> threads[t].wrote]
  /\ threads' = [threads EXCEPT ![t] = IdleThread]
  /\ UNCHANGED <<sm, validated, recommender, loader, script, app, pipeline, predicted,
                 conversations, now, written, episode, writer>>

NextConc ==
  \/ \E t \in Threads, user_id \in Users, message \in ConcMessages :
       \E env \in IF UsesEnv(conversations, now, user_id, message)
                   THEN ConcEnvs ELSE {NoEnv} :
         Begin(t, user_id, message, env)
  \/ \E t \in Threads : Handle(t)
  \/ \E t \in Threads : Generate(t)
  \/ \E t \in Threads : Save(t)

SpecConc == Init /\ [][NextConc]_vars

(***************************************************************************)
(* _save_conversations step by step, with crashes.  open(path, "w")        *)
(* truncates the file, json.dump writes the document chunk by chunk, and   *)
(* leaving the with block closes the file.  A call for a user the store    *)
(* does not hold saves twice: once in get_user_conversation, once at the   *)
(* end of process_message.  The process can die at any point; a new        *)
(* ConversationManager then loads what the file holds.                     *)
(***************************************************************************)
Call(user_id, message, env) ==
  /\ writer.pc = "idle"
  /\ \E r \in {process_message(conversations, now, user_id, message, env)},
        created \in {get_user_conversation(conversations, user_id, now)} :
       /\ conversations' = r.conversations
       /\ writer' = [pc |-> "open",
                     pending |-> IF user_id \in DOMAIN conversations
                                 THEN <<Serialize(r.conversations)>>
                                 ELSE <<Serialize(created),
                                        Serialize(r.conversations)>>,
                     previous |-> disk,
                     result |-> [response |-> r.response, call |-> r.call]]
  /\ UNCHANGED <<sm, validated, recommender, loader, script, app, pipeline, predicted,
                 disk, now, response, last, written, threads, episode>>

\* with open(self.storage_path, "w") as f
OpenFile ==
  /\ writer.pc = "open"
  /\ disk' = <<>>
  /\ writer' = [writer EXCEPT !.pc = "write", !.previous = disk]
  /\ UNCHANGED <<sm, validated, recommender, loader, script, app, pipeline, predicted,
                 conversations, now, response, last, written, threads, episode>>

\* json.dump(self.conversations, f), one chunk
WriteChunk ==
  /\ writer.pc = "write"
  /\ Len(disk) < Len(Head(writer.pending))
  /\ disk' = Append(disk, Head(writer.pending)[Len(disk) + 1])
  /\ UNCHANGED <<sm, validated, recommender, loader, script, app, pipeline, predicted,
                 conversations, now, response, last, written, threads,
                 episode, writer>>

\* the end of the with block; after the last save the call returns
CloseFile ==
  /\ writer.pc = "write"
  /\ Len(disk) = Len(Head(writer.pending))
  /\ IF Len(writer.pending) > 1
     THEN /\ writer' = [writer EXCEPT !.pc = "open", !.pending = Tail(@)]
          /\ UNCHANGED <<response, last>>
     ELSE /\ writer' = IdleWriter
          /\ response' = writer.result.response
          /\ last' = writer.result.call
  /\ UNCHANGED <<sm, validated, recommender, loader, script, app, pipeline, predicted,
                 conversations, disk, now, written, threads, episode>>

\* the process dies: what it held in memory is gone, the file stays
Crash ==
  /\ writer.pc # "down"
  /\ conversations' = EmptyStore
  /\ writer' = [IdleWriter EXCEPT !.pc = "down"]
  /\ UNCHANGED <<sm, validated, recommender, loader, script, app, pipeline, predicted,
                 disk, now, response, last, written, threads, episode>>

\* ConversationManager.__init__: self.conversations = _load_conversations()
Restart ==
  /\ writer.pc = "down"
  /\ conversations' = _load_conversations(disk)
  /\ writer' = IdleWriter
  /\ UNCHANGED <<sm, validated, recommender, loader, script, app, pipeline, predicted,
                 disk, now, response, last, written, threads, episode>>

NextCrash ==
  \/ \E user_id \in Users, message \in ConcMessages :
       \E env \in IF UsesEnv(conversations, now, user_id, message)
                   THEN ConcEnvs ELSE {NoEnv} :
         Call(user_id, message, env)
  \/ OpenFile
  \/ WriteChunk
  \/ CloseFile
  \/ Crash
  \/ Restart

SpecCrash == Init /\ [][NextCrash]_vars

(***************************************************************************)
(* StateManager.  Its storage file holds one JSON object, user id to       *)
(* profile, written by json.dump as the chunks of Serialize.  A file is    *)
(* [exists, content]; besides the chunks of an object, content can hold    *)
(* the chunks of a JSON array and chunks of bytes that are not UTF-8.      *)
(* Reading yields the exception raised ("" if none), the type of the JSON  *)
(* value and, for an object, its items.  The timestamps created_at and     *)
(* last_updated are left out of the profiles.                              *)
(***************************************************************************)
\* bound: the update calls begun in one behaviour
MaxUpdates == 3

DEFAULT_PROFILE ==
  [age |-> 30, gender |-> "other", weight_kg |-> 70, height_cm |-> 170,
   activity_level |-> "moderate", week |-> 1,
   fitness_goal |-> "maintenance", dietary_restrictions |-> <<>>]

SMUsers == {"u1", "u2"}

\* roadmaps handed to update_user_progress: without and with a target weight
Roadmaps == {[target_weight_kg |-> None], [target_weight_kg |-> Some(68)]}

\* the updates set_user_restrictions hands to update_user_profile
ProfileUpdates == {Assign("dietary_restrictions", <<"vegetarian">>)}

File(content) == [exists |-> TRUE, content |-> content]

NoFile == [exists |-> FALSE, content |-> <<>>]

\* the bytes of the file decode as UTF-8
Decodes(content) == \A i \in 1..Len(content) : content[i] # <<"bytes">>

\* the text is a JSON array
ParsesAsList(content) == content = << <<"[">>, <<"]">> >>

\* open(path, 'r', encoding='utf-8') followed by json.load: the exception
\* raised, "" if none
ReadOutcome(file) ==
  IF ~file.exists THEN "FileNotFoundError"
  ELSE IF ~Decodes(file.content) THEN "UnicodeDecodeError"
  ELSE IF ~(Parses(file.content) \/ ParsesAsList(file.content))
       THEN "JSONDecodeError"
  ELSE ""

Loaded(raised, type, items) == [raised |-> raised, type |-> type, items |-> items]

\* json.load on a file that reads and parses
json_load(file) ==
  IF Parses(file.content)
  THEN Loaded("", "dict", _load_conversations(file.content))
  ELSE Loaded("", "list", EmptyStore)

_read_storage(file) ==
  LET outcome == ReadOutcome(file)
  IN  IF outcome = "" THEN json_load(file)
      ELSE IF outcome \in {"JSONDecodeError", "FileNotFoundError"}
           THEN Loaded("", "dict", EmptyStore)
      ELSE Loaded(outcome, "", EmptyStore)

\* the temporary file is written and then renamed over the storage file
_write_storage(data) == File(Serialize(data))

\* storage[user_id] = DEFAULT_PROFILE.copy() with the user id, if absent
WithProfile(storage, user_id) ==
  IF user_id \in DOMAIN storage THEN storage
  ELSE [u \in DOMAIN storage \cup {user_id} |->
          IF u = user_id
          THEN [f \in DOMAIN DEFAULT_PROFILE \cup {"user_id"} |->
                  IF f = "user_id" THEN user_id ELSE DEFAULT_PROFILE[f]]
          ELSE storage[u]]

\* update_user_profile between its read and its write of the storage
update_user_profile(storage, user_id, updates) ==
  LET s == WithProfile(storage, user_id)
  IN  [s EXCEPT ![user_id] = WriteFields(@, updates)]

\* update_user_progress between its read and its write of the storage
update_user_progress(storage, user_id, roadmap) ==
  LET s == WithProfile(storage, user_id)
      current_week == IF "week" \in DOMAIN s[user_id]
                      THEN s[user_id].week ELSE DEFAULT_PROFILE.week
      weighed == IF IsNone(roadmap.target_weight_kg) THEN s[user_id]
                 ELSE [s[user_id] EXCEPT
                         !.weight_kg = Get(roadmap.target_weight_kg)]
  IN  [s EXCEPT ![user_id] = [weighed EXCEPT !.week = current_week + 1]]

\* a thread that is in no update call
IdleUpdate ==
  [pc |-> "idle", op |-> "", user_id |-> "",
   roadmap |-> [target_weight_kg |-> None], updates |-> NoWrites,
   storage |-> EmptyStore]

\* StateManager(storage_path) where no file exists: __init__ writes {}
NewStateManager ==
  [file |-> _write_storage(EmptyStore), lock |-> None,
   calls |-> [t \in Threads |-> IdleUpdate], begun |-> 0,
   progressed |-> [u \in SMUsers |-> 0], restricted |-> {}]

InitSM ==
  /\ InitDialogue
  /\ sm = NewStateManager
  /\ validated = None
  /\ recommender = None
  /\ loader = None
  /\ script = None
  /\ app = None
  /\ pipeline = None
  /\ predicted = None

OtherThanSM ==
  <<conversations, disk, now, response, last, written, threads, episode,
    writer, validated, recommender, loader,
    script, app, pipeline, predicted, pipeline>>

\* a thread enters update_user_progress or update_user_profile
BeginUpdate(t, user_id) ==
  /\ sm.calls[t].pc = "idle"
  /\ sm.begun < MaxUpdates
  /\ \E call \in {[IdleUpdate EXCEPT !.pc = "read", !.op = "progress",
                     !.user_id = user_id, !.roadmap = r] : r \in Roadmaps}
             \cup {[IdleUpdate EXCEPT !.pc = "read", !.op = "profile",
                      !.user_id = user_id, !.updates = w] :
                     w \in ProfileUpdates} :
       sm' = [sm EXCEPT !.calls[t] = call, !.begun = @ + 1]
  /\ UNCHANGED OtherThanSM

\* with self.lock: entered by _read_storage or by _write_storage
AcquireLock(t) ==
  /\ sm.calls[t].pc \in {"read", "write"}
  /\ IsNone(sm.lock)
  /\ sm' = [sm EXCEPT !.lock = Some(t),
                      !.calls[t].pc = IF @ = "read" THEN "reading"
                                      ELSE "writing"]
  /\ UNCHANGED OtherThanSM

\* _read_storage returns and releases the lock; the method then changes
\* the dict it got
ReadStorage(t) ==
  /\ sm.calls[t].pc = "reading"
  /\ \E read \in {_read_storage(sm.file)} :
       /\ read.raised = "" /\ read.type = "dict"
       /\ sm' = [sm EXCEPT
                   !.lock = None,
                   !.calls[t].pc = "write",
                   !.calls[t].storage =
                      IF sm.calls[t].op = "progress"
                      THEN update_user_progress(read.items,
                             sm.calls[t].user_id, sm.calls[t].roadmap)
                      ELSE update_user_profile(read.items,
                             sm.calls[t].user_id, sm.calls[t].updates)]
  /\ UNCHANGED OtherThanSM

\* _write_storage replaces the file and releases the lock; the call returns
WriteStorage(t) ==
  /\ sm.calls[t].pc = "writing"
  /\ sm' = [sm EXCEPT
              !.file = _write_storage(sm.calls[t].storage),
              !.lock = None,
              !.calls[t] = IdleUpdate,
              !.progressed[sm.calls[t].user_id] =
                 IF sm.calls[t].op = "progress" THEN @ + 1 ELSE @,
              !.restricted =
                 IF sm.calls[t].op = "profile"
                 THEN @ \cup {sm.calls[t].user_id} ELSE @]
  /\ UNCHANGED OtherThanSM

NextSM ==
  \/ \E t \in Threads, user_id \in SMUsers : BeginUpdate(t, user_id)
  \/ \E t \in Threads : AcquireLock(t)
  \/ \E t \in Threads : ReadStorage(t)
  \/ \E t \in Threads : WriteStorage(t)

SpecSM == InitSM /\ [][NextSM]_vars

(***************************************************************************)
(* A reader starting on a store file of any content.  A reader is a        *)
(* ConversationManager, which loads the file in __init__ and serves        *)
(* get_user_conversation from what it loaded, or a StateManager, whose     *)
(* get_user_state reads the file and then looks the user up.  The file is  *)
(* absent, or holds up to MaxChunks chunks of any kind.                    *)
(***************************************************************************)
\* bound: the chunks of a store file found at start-up
MaxChunks == 3

Readers == {"ConversationManager", "StateManager"}

\* ConversationManager._load_conversations on a file of any content: the
\* bare except turns every failure into {}
LoadStore(file) ==
  IF ReadOutcome(file) = "" THEN json_load(file)
  ELSE Loaded("", "dict", EmptyStore)

\* the profile get_user_state creates for a user the storage does not hold
\* (no intent given)
ColdStartProfile(user_id) == WithProfile(EmptyStore, user_id)[user_id]

\* the chunks a store file can hold
Chunks(reader) ==
  { <<"{">>, <<"}">>, <<"[">>, <<"]">>, <<"bytes">>,
    <<"entry", "u1",
      IF reader = "StateManager" THEN ColdStartProfile("u1")
      ELSE NewConversation(0)>> }

RECURSIVE Contents(_, _)
Contents(reader, n) ==
  IF n = 0 THEN {<<>>}
  ELSE LET shorter == Contents(reader, n - 1)
       IN  shorter \cup {Append(c, k) : c \in shorter, k \in Chunks(reader)}

StoreFiles(reader) ==
  {NoFile} \cup {File(c) : c \in Contents(reader, MaxChunks)}

NewLoader(reader, file) ==
  [reader |-> reader, file |-> file, pc |-> "start", raised |-> "",
   type |-> "", items |-> EmptyStore, record |-> None]

InitLoad ==
  /\ InitDialogue
  /\ sm = None
  /\ validated = None
  /\ recommender = None
  /\ script = None
  /\ app = None
  /\ pipeline = None
  /\ predicted = None
  /\ \E reader \in Readers :
       \E file \in StoreFiles(reader) : loader = NewLoader(reader, file)

OtherThanLoader ==
  <<conversations, disk, now, response, last, written, threads, episode,
    writer, sm, validated, recommender,
    script, app, pipeline, predicted, pipeline>>

\* ConversationManager.__init__ loads the store; StateManager.get_user_state
\* reads the storage
Load ==
  /\ loader.pc = "start"
  /\ \E read \in {IF loader.reader = "StateManager"
                  THEN _read_storage(loader.file)
                  ELSE LoadStore(loader.file)} :
       loader' = [loader EXCEPT
                    !.pc = IF read.raised = "" THEN "loaded" ELSE "failed",
                    !.raised = read.raised,
                    !.type = read.type,
                    !.items = read.items]
  /\ UNCHANGED OtherThanLoader

\* the access that follows: get_user_conversation(user_id), or the rest of
\* get_user_state(user_id).  "in" works on a list, item assignment with a
\* string index raises TypeError
Access(user_id) ==
  /\ loader.pc = "loaded"
  /\ loader' =
       IF loader.type = "list"
       THEN [loader EXCEPT !.pc = "failed", !.raised = "TypeError"]
       ELSE [loader EXCEPT
               !.pc = "accessed",
               !.record =
                  IF loader.reader = "StateManager"
                  THEN Some(WithProfile(loader.items, user_id)[user_id])
                  ELSE Some(get_user_conversation(loader.items, user_id,
                                                  now)[user_id])]
  /\ UNCHANGED OtherThanLoader

NextLoad ==
  \/ Load
  \/ \E user_id \in SMUsers : Access(user_id)

SpecLoad == InitLoad /\ [][NextLoad]_vars

(***************************************************************************)
(* SafetyValidator.validate_meal_plan applied to meal plans of any         *)
(* content: foods with and without allergen tags, names on and off the     *)
(* small-portion lists, portions at and beyond the limits, meals at and    *)
(* below the protein threshold, plans without a lunch.                     *)
(***************************************************************************)
TaggedFood(name, portion_g, allergens) ==
  [name |-> name, portion_g |-> portion_g, allergens |-> allergens]

\* the foods of one meal
FoodLists ==
  { <<>>,
    <<Food("Tofu", 120)>>,
    <<Food("Tofu", 14), Food("Olive Oil", 4)>>,
    <<Food("Olive Oil", 51), Food("Tofu", 601)>>,
    <<Food("Olive Oil", 50), Food("Tofu", 600), Food("Tofu", 15)>>,
    <<Food("Chia Seeds", 11), Food("Soy Sauce", 5)>>,
    <<TaggedFood("Milk", 200, {"dairy"})>>,
    <<Food("Tofu", 14), TaggedFood("Peanut Butter", 60, {"peanuts"})>> }

MealChoices == {Meal(foods, p) : foods \in FoodLists, p \in {14, 15}}

FewMealChoices ==
  {Meal(foods, p) :
     foods \in {<<>>, <<Food("Tofu", 601)>>,
                <<TaggedFood("Milk", 200, {"dairy"})>>},
     p \in {14, 15}}

\* plans with the four meals, and plans without a lunch
PlansToValidate ==
  [breakfast : MealChoices, lunch : MealChoices,
   dinner : FewMealChoices, snack : FewMealChoices]
  \cup [breakfast : MealChoices, dinner : FewMealChoices,
        snack : FewMealChoices]

RestrictionsToValidate == {<<>>, <<"dairy">>, <<"vegetarian", "peanuts">>}

InitValidate ==
  /\ InitDialogue
  /\ sm = None
  /\ recommender = None
  /\ loader = None
  /\ script = None
  /\ app = None
  /\ pipeline = None
  /\ predicted = None
  /\ \E meal_plan \in PlansToValidate :
       \E restrictions \in RestrictionsToValidate :
         validated = [meal_plan |-> meal_plan, restrictions |-> restrictions,
                      result |-> None]

OtherThanValidated ==
  <<conversations, disk, now, response, last, written, threads, episode,
    writer, sm, recommender, loader,
    script, app, pipeline, predicted, pipeline>>

\* validator.validate_meal_plan(meal_plan, target, restrictions)
Validate ==
  /\ IsNone(validated.result)
  /\ validated' =
       [validated EXCEPT
          !.result = Some(validate_meal_plan(validated.meal_plan, 0,
                                             validated.restrictions))]
  /\ UNCHANGED OtherThanValidated

NextValidate == Validate

SpecValidate == InitValidate /\ [][NextValidate]_vars

(***************************************************************************)
(* FoodRecommender (model_3_build).  Nutrition values are in tenths: a     *)
(* catalog food holds tenths of kcal and of grams per 100 g, a selected    *)
(* food and a meal hold tenths of kcal and of grams, as round(x, 1)        *)
(* leaves them.  Meal targets for protein, carbs and fat are in            *)
(* thousandths of a gram (tenths of a gram times a percentage).  A portion *)
(* before rounding is a fraction <<n, d>> of grams.  round is computed on  *)
(* the exact value, to the nearest, ties to even; the code rounds the      *)
(* binary double, which at an exact tie can fall on either side, one       *)
(* tenth apart.                                                            *)
(***************************************************************************)
MACRO_RATIOS ==
  [weight_loss |-> [protein |-> 35, carbs |-> 40, fat |-> 25],
   muscle_gain |-> [protein |-> 30, carbs |-> 50, fat |-> 20],
   maintenance |-> [protein |-> 25, carbs |-> 45, fat |-> 30]]

\* percent of the daily targets per meal, in dict order
MEAL_DISTRIBUTION ==
  << <<"breakfast", 25>>, <<"lunch", 35>>, <<"dinner", 30>>, <<"snack", 15>> >>

PROTEIN_CAL_PER_G == 4
CARB_CAL_PER_G == 4
FAT_CAL_PER_G == 9
MIN_PROTEIN_PER_MEAL == 20
MIN_PORTION == 50
MAX_PORTION == 500
VEGETABLE_PORTION == 90
FAT_MIN_PORTION == 5
FAT_MAX_PORTION == 30

COMPLEX_CARBS == {"quinoa", "oats", "brown_rice", "whole_wheat_pasta", "sweet_potato"}
VEG_PRIORITY == {"broccoli", "spinach", "kale", "bell_pepper"}
FAT_PRIORITY == {"olive_oil", "avocado", "chia_seeds", "flaxseeds"}

\* round(a / b) for a >= 0, b > 0
RoundDiv(a, b) ==
  LET q == a \div b
      r == a % b
  IN  IF 2 * r < b THEN q
      ELSE IF 2 * r > b THEN q + 1
      ELSE IF q % 2 = 0 THEN q ELSE q + 1

\* calculate_macros: daily protein, carbs and fat in tenths of a gram
calculate_macros(calories, goal) ==
  [protein_g |-> RoundDiv(calories * MACRO_RATIOS[goal].protein,
                          10 * PROTEIN_CAL_PER_G),
   carbs_g   |-> RoundDiv(calories * MACRO_RATIOS[goal].carbs,
                          10 * CARB_CAL_PER_G),
   fat_g     |-> RoundDiv(calories * MACRO_RATIOS[goal].fat,
                          10 * FAT_CAL_PER_G)]

\* the food is dropped by _filter_by_restrictions
Excluded(food, restrictions) ==
  \/ "vegetarian" \in SeqRange(restrictions) /\ ~food.vegetarian
  \/ "vegan" \in SeqRange(restrictions) /\ ~food.vegan
  \/ \E k \in 1..Len(restrictions) :
       /\ StartsWith(restrictions[k], "no_")
       /\ LET allergen == SubSeq(restrictions[k], 4, Len(restrictions[k]))
          IN  IF allergen = "nuts"
              THEN "tree nuts" \in food.allergens \/ "peanuts" \in food.allergens
              ELSE allergen \in food.allergens

\* the list is returned as it is, not copied
Unfiltered(restrictions) == restrictions = <<>> \/ restrictions = <<"none">>

\* a filter that honours vegetarian and the allergens, not vegan
_filter_by_restrictions_NoVeganRule(foods, restrictions) ==
  IF Unfiltered(restrictions) THEN foods
  ELSE SelectSeq(foods, LAMBDA food :
         ~Excluded(food, SelectSeq(restrictions, LAMBDA r : r # "vegan")))

_filter_by_restrictions(foods, restrictions) ==
  IF Unfiltered(restrictions) THEN foods
  ELSE SelectSeq(foods, LAMBDA food : ~Excluded(food, restrictions))

\* list.sort(key, reverse=True) on <<key, food>> pairs: descending, equal
\* keys stay in their order
RECURSIVE SortedDesc(_)
SortedDesc(pairs) ==
  IF pairs = <<>> THEN <<>>
  ELSE LET rest == SortedDesc(SubSeq(pairs, 1, Len(pairs) - 1))
           x    == pairs[Len(pairs)]
           n    == Cardinality({i \in 1..Len(rest) : rest[i][1] >= x[1]})
       IN  SubSeq(rest, 1, n) \o <<x>> \o SubSeq(rest, n + 1, Len(rest))

\* the sort keys of build_meal, a tuple (flag, fiber) as one number
ProteinKey(food) == food.protein_g
GrainKey(food) == (IF food.id \in COMPLEX_CARBS THEN 100000 ELSE 0) + food.fiber_g
VegKey(food) == (IF food.id \in VEG_PRIORITY THEN 100000 ELSE 0) + food.fiber_g
FatKey(food) == IF food.id \in FAT_PRIORITY THEN 1 ELSE 0

SortFoods(foods, category) ==
  LET key(food) == IF category = "protein" THEN ProteinKey(food)
                   ELSE IF category = "grain" THEN GrainKey(food)
                   ELSE IF category = "vegetable" THEN VegKey(food)
                   ELSE FatKey(food)
      sorted == SortedDesc([i \in 1..Len(foods) |-> <<key(foods[i]), foods[i]>>])
  IN  [i \in 1..Len(sorted) |-> sorted[i][2]]

\* min(max(n / d, lo), hi)
Clamp(n, d, lo, hi) ==
  IF n < lo * d THEN <<lo, 1>>
  ELSE IF n > hi * d THEN <<hi, 1>>
  ELSE <<n, d>>

\* _calculate_portion_calories and the entry appended to selected_foods
Selected(food, portion) ==
  [id |-> food.id, name |-> food.name,
   portion_g |-> RoundDiv(portion[1], portion[2]),
   calories  |-> RoundDiv(food.calories_per_100g * portion[1], 100 * portion[2]),
   protein_g |-> RoundDiv(food.protein_g * portion[1], 100 * portion[2]),
   carbs_g   |-> RoundDiv(food.carbs_g * portion[1], 100 * portion[2]),
   fat_g     |-> RoundDiv(food.fat_g * portion[1], 100 * portion[2])]

RECURSIVE Total(_, _)
Total(foods, field) ==
  IF foods = <<>> THEN 0 ELSE Head(foods)[field] + Total(Tail(foods), field)

\* foods_by_category.get(category, [])
CategoryFoods(foods_by_category, category) ==
  IF category \in DOMAIN foods_by_category THEN foods_by_category[category]
  ELSE <<>>

\* a build_meal that stores the filtered list as the category list
SortedInPlace_FilterKept(foods_by_category, category, restrictions) ==
  IF category \in DOMAIN foods_by_category
  THEN [foods_by_category EXCEPT ![category] =
          SortFoods(_filter_by_restrictions(@, restrictions), category)]
  ELSE foods_by_category

\* the category list after build_meal sorted what the filter returned
SortedInPlace(foods_by_category, category, restrictions) ==
  IF category \in DOMAIN foods_by_category /\ Unfiltered(restrictions)
  THEN [foods_by_category EXCEPT ![category] = SortFoods(@, category)]
  ELSE foods_by_category

\* the value of F at v, with v computed once
Bind(v, F(_)) == CHOOSE r \in {F(x) : x \in {v}} : TRUE

\* selected_foods and the category lists in the course of build_meal
MealSoFar(foods, foods_by_category, raised) ==
  [foods |-> foods, foods_by_category |-> foods_by_category, raised |-> raised]

\* a step 1 that takes the first protein of an empty list
ProteinStep_RaisesWhenEmpty(meal, meal_protein_g, restrictions) ==
  LET protein_foods ==
        SortFoods(_filter_by_restrictions(
                    CategoryFoods(meal.foods_by_category, "protein"),
                    restrictions),
                  "protein")
      sorted == SortedInPlace(meal.foods_by_category, "protein", restrictions)
  IN  IF protein_foods = <<>> \/ protein_foods[1].protein_g = 0
      THEN MealSoFar(meal.foods, sorted, TRUE)
      ELSE MealSoFar(
             Append(meal.foods,
                    Selected(protein_foods[1],
                             Clamp(3 * meal_protein_g,
                                   5 * protein_foods[1].protein_g,
                                   MIN_PORTION, MAX_PORTION))),
             sorted, FALSE)

\* step 1: the protein source
ProteinStep(meal, meal_protein_g, restrictions) ==
  LET protein_foods ==
        SortFoods(_filter_by_restrictions(
                    CategoryFoods(meal.foods_by_category, "protein"),
                    restrictions),
                  "protein")
      sorted == SortedInPlace(meal.foods_by_category, "protein", restrictions)
  IN  IF protein_foods = <<>> THEN meal
      ELSE IF protein_foods[1].protein_g = 0
      THEN MealSoFar(meal.foods, sorted, TRUE)
      ELSE MealSoFar(
             Append(meal.foods,
                    Selected(protein_foods[1],
                             Clamp(3 * meal_protein_g,
                                   5 * protein_foods[1].protein_g,
                                   MIN_PORTION, MAX_PORTION))),
             sorted, FALSE)

\* step 2: the grain or carb source, on a list of its own
GrainStep(meal, meal_carbs_g, restrictions) ==
  LET grain_foods ==
        SortFoods(_filter_by_restrictions(
                    CategoryFoods(meal.foods_by_category, "grain")
                    \o CategoryFoods(meal.foods_by_category, "carb"),
                    restrictions),
                  "grain")
      total == 100 * Total(meal.foods, "carbs_g")
      carbs_needed == IF meal_carbs_g > total THEN meal_carbs_g - total ELSE 0
  IN  IF meal.raised \/ grain_foods = <<>> THEN meal
      ELSE IF grain_foods[1].carbs_g = 0
      THEN MealSoFar(meal.foods, meal.foods_by_category, TRUE)
      ELSE MealSoFar(
             Append(meal.foods,
                    Selected(grain_foods[1],
                             Clamp(carbs_needed, grain_foods[1].carbs_g,
                                   MIN_PORTION, MAX_PORTION))),
             meal.foods_by_category, FALSE)

\* step 3: the vegetable, a fixed portion
VegetableStep(meal, restrictions) ==
  LET vegetable_foods ==
        SortFoods(_filter_by_restrictions(
                    CategoryFoods(meal.foods_by_category, "vegetable"),
                    restrictions),
                  "vegetable")
  IN  IF meal.raised \/ vegetable_foods = <<>> THEN meal
      ELSE MealSoFar(
             Append(meal.foods,
                    Selected(vegetable_foods[1], <<VEGETABLE_PORTION, 1>>)),
             SortedInPlace(meal.foods_by_category, "vegetable", restrictions),
             FALSE)

\* step 4: a fat, if the fat so far is below 70% of the target
FatStep(meal, meal_fat_g, restrictions) ==
  LET total == Total(meal.foods, "fat_g")
      fat_foods ==
        SortFoods(_filter_by_restrictions(
                    CategoryFoods(meal.foods_by_category, "fat"),
                    restrictions),
                  "fat")
      fat_needed == IF meal_fat_g > 100 * total
                    THEN meal_fat_g - 100 * total ELSE 0
      sorted == SortedInPlace(meal.foods_by_category, "fat", restrictions)
  IN  IF meal.raised \/ ~(1000 * total < 7 * meal_fat_g) \/ fat_foods = <<>>
      THEN meal
      ELSE IF fat_foods[1].fat_g = 0
      THEN MealSoFar(meal.foods, sorted, TRUE)
      ELSE MealSoFar(
             Append(meal.foods,
                    Selected(fat_foods[1],
                             Clamp(fat_needed, fat_foods[1].fat_g,
                                   FAT_MIN_PORTION, FAT_MAX_PORTION))),
             sorted, FALSE)

\* a step 5 that scales whatever the factor is
Scaled_AnyFactor(selected_foods, meal_calories) ==
  Bind(Total(selected_foods, "calories"), LAMBDA total :
    LET sn == 10 * meal_calories
        off == IF sn > total THEN sn - total ELSE total - sn
    IN  IF total > 0 /\ 100 * off > 3 * total
        THEN [i \in 1..Len(selected_foods) |->
                [selected_foods[i] EXCEPT
                   !.portion_g = RoundDiv(@ * sn, total),
                   !.calories  = RoundDiv(@ * sn, total),
                   !.protein_g = RoundDiv(@ * sn, total),
                   !.carbs_g   = RoundDiv(@ * sn, total),
                   !.fat_g     = RoundDiv(@ * sn, total)]]
        ELSE selected_foods)

\* step 5 of build_meal: scale the portions to the calorie target
Scaled(selected_foods, meal_calories) ==
  Bind(Total(selected_foods, "calories"), LAMBDA total :
    LET sn == 10 * meal_calories
        off == IF sn > total THEN sn - total ELSE total - sn
    IN  IF /\ total > 0
           /\ 100 * off > 3 * total
           /\ 7 * total <= 10 * sn
           /\ 10 * sn <= 13 * total
        THEN [i \in 1..Len(selected_foods) |->
                [selected_foods[i] EXCEPT
                   !.portion_g = RoundDiv(@ * sn, total),
                   !.calories  = RoundDiv(@ * sn, total),
                   !.protein_g = RoundDiv(@ * sn, total),
                   !.carbs_g   = RoundDiv(@ * sn, total),
                   !.fat_g     = RoundDiv(@ * sn, total)]]
        ELSE selected_foods)

\* the meal build_meal returns, with the category lists as it leaves them
\* and whether it raised (a division by a zero nutrient of the chosen food)
Finished(meal, meal_calories) ==
  IF meal.raised
  THEN [raised |-> TRUE, foods |-> <<>>, total_calories |-> 0,
        total_protein_g |-> 0, foods_by_category |-> meal.foods_by_category]
  ELSE Bind(Scaled(meal.foods, meal_calories), LAMBDA foods :
         [raised |-> FALSE, foods |-> foods,
          total_calories |-> Total(foods, "calories"),
          total_protein_g |-> Total(foods, "protein_g"),
          foods_by_category |-> meal.foods_by_category])

build_meal(foods_by_category, meal_calories, meal_protein_g, meal_carbs_g, meal_fat_g, restrictions) ==
  Bind(ProteinStep(MealSoFar(<<>>, foods_by_category, FALSE),
                   meal_protein_g, restrictions), LAMBDA step1 :
  Bind(GrainStep(step1, meal_carbs_g, restrictions), LAMBDA step2 :
  Bind(VegetableStep(step2, restrictions), LAMBDA step3 :
  Bind(FatStep(step3, meal_fat_g, restrictions), LAMBDA step4 :
    Finished(step4, meal_calories)))))

\* the portion from which _validate_safety reports a portion out of range
REPORTED_ABOVE == 50

\* a safety check that looks at the portions only
_validate_safety_PortionsOnly(meals) ==
  \A k \in 1..Len(meals) : \A i \in 1..Len(meals[k].foods) :
    LET portion_g == meals[k].foods[i].portion_g
    IN  ~(/\ portion_g < MIN_PORTION \/ portion_g > MAX_PORTION
          /\ portion_g > REPORTED_ABOVE)

\* _validate_safety: no error is found
_validate_safety(meals) ==
  /\ \A k \in 1..Len(meals) :
       MEAL_DISTRIBUTION[k][1] \in {"breakfast", "lunch", "dinner"} =>
         ~(meals[k].total_protein_g < 10 * MIN_PROTEIN_PER_MEAL)
  /\ \A k \in 1..Len(meals) : \A i \in 1..Len(meals[k].foods) :
       LET portion_g == meals[k].foods[i].portion_g
       IN  ~(/\ portion_g < MIN_PORTION \/ portion_g > MAX_PORTION
             /\ portion_g > REPORTED_ABOVE)

\* the power of two at or below n, for 1 <= n < 2^15
Binade(n) == CHOOSE p \in {2^e : e \in 0..14} : p <= n /\ n < 2 * p

\* a distribution whose four shares add up to the whole day
MealCalories_SharesOfOneDay(target_calories, pct) ==
  (target_calories * (IF pct = 15 THEN 10 ELSE pct)) \div 100

\* int(target_calories * meal_pct) for a whole target and meal_pct = pct/100
\* as a double: 0.25 is exact; the doubles for 0.30 and 0.15 are below the
\* fractions by too little to matter; the double for 0.35 is below 35/100
\* by 0.4 * 2^-54, so a product that is a whole number q in exact
\* arithmetic is rounded to the double below q, and truncated to q - 1,
\* when target_calories * 0.4 * 2^-54 exceeds half the spacing of the
\* doubles below q
MealCalories(target_calories, pct) ==
  LET q == (target_calories * pct) \div 100
  IN  IF /\ pct = 35
         /\ (target_calories * pct) % 100 = 0
         /\ q > 0
         /\ target_calories > 5 * Binade(q)
      THEN q - 1
      ELSE q

\* the loop of generate_plan over MEAL_DISTRIBUTION, from the k-th meal on
RECURSIVE BuildMeals(_, _, _, _, _)
BuildMeals(foods_by_category, k, target_calories, daily_macros, restrictions) ==
  IF k > Len(MEAL_DISTRIBUTION)
  THEN [raised |-> FALSE, meals |-> <<>>, foods_by_category |-> foods_by_category]
  ELSE Bind(build_meal(foods_by_category,
                       MealCalories(target_calories, MEAL_DISTRIBUTION[k][2]),
                       daily_macros.protein_g * MEAL_DISTRIBUTION[k][2],
                       daily_macros.carbs_g * MEAL_DISTRIBUTION[k][2],
                       daily_macros.fat_g * MEAL_DISTRIBUTION[k][2],
                       restrictions), LAMBDA meal :
         IF meal.raised
         THEN [raised |-> TRUE, meals |-> <<>>,
               foods_by_category |-> meal.foods_by_category]
         ELSE Bind(BuildMeals(meal.foods_by_category, k + 1, target_calories,
                              daily_macros, restrictions), LAMBDA rest :
                [raised |-> rest.raised,
                 meals |-> IF rest.raised THEN <<>>
                           ELSE <<[foods |-> meal.foods,
                                   total_calories |-> meal.total_calories,
                                   total_protein_g |-> meal.total_protein_g]>>
                                \o rest.meals,
                 foods_by_category |-> rest.foods_by_category]))

PlanResult(status, error, meals, calories, foods_by_category) ==
  [status |-> status, error |-> error, meal_plan |-> meals,
   calories |-> calories, foods_by_category |-> foods_by_category]

\* a generate_plan whose try block lets the ValueError of calculate_macros
\* escape
generate_plan_ValueErrorEscapes(foods_by_category, target_calories, fitness_goal, restrictions) ==
  PlanResult(IF fitness_goal \notin DOMAIN MACRO_RATIOS THEN "raised"
             ELSE "error",
             "Invalid goal", <<>>, 0, foods_by_category)

\* generate_plan on the category lists as they are: status, error, the
\* meals in dict order, the daily calories in tenths, and the category
\* lists as the call leaves them
generate_plan(foods_by_category, target_calories, fitness_goal, restrictions) ==
  IF fitness_goal \notin DOMAIN MACRO_RATIOS
  THEN PlanResult("error", "Invalid goal", <<>>, 0, foods_by_category)
  ELSE Bind(BuildMeals(foods_by_category, 1, target_calories,
                       calculate_macros(target_calories, fitness_goal),
                       restrictions), LAMBDA built :
         IF built.raised \/ target_calories = 0
         THEN PlanResult("error", "division by zero", <<>>, 0,
                         built.foods_by_category)
         ELSE IF ~_validate_safety(built.meals)
         THEN PlanResult("error", "Safety validation failed", <<>>, 0,
                         built.foods_by_category)
         ELSE PlanResult("success", "", built.meals,
                         Total(built.meals, "total_calories"),
                         built.foods_by_category))

(***************************************************************************)
(* One FoodRecommender serving generate_plan calls one after the other,    *)
(* each followed by the SafetyValidator as in                              *)
(* ConversationManager._generate_plan.  The catalog is drawn from a set of *)
(* catalogs; a call draws its target, goal and restrictions.  The state    *)
(* keeps the first call and the last one.                                  *)
(***************************************************************************)
\* bound: the generate_plan calls made on one recommender
MaxGenerate == 3

CatalogFood(id, name, category, calories_per_100g, protein_g, carbs_g, fat_g,
            fiber_g, vegetarian, vegan, allergens) ==
  [id |-> id, name |-> name, category |-> category,
   calories_per_100g |-> calories_per_100g, protein_g |-> protein_g,
   carbs_g |-> carbs_g, fat_g |-> fat_g, fiber_g |-> fiber_g,
   vegetarian |-> vegetarian, vegan |-> vegan, allergens |-> allergens]

\* a catalog with meat, dairy and plant foods; two proteins tie on protein_g
FullCatalog ==
  << CatalogFood("chicken_breast", "Chicken Breast", "protein",
                 1650, 310, 0, 36, 0, FALSE, FALSE, {}),
     CatalogFood("turkey_breast", "Turkey Breast", "protein",
                 1350, 310, 0, 10, 0, FALSE, FALSE, {}),
     CatalogFood("greek_yogurt", "Greek Yogurt", "protein",
                 590, 100, 36, 4, 0, TRUE, FALSE, {"dairy"}),
     CatalogFood("tofu", "Tofu", "protein",
                 760, 80, 19, 48, 3, TRUE, TRUE, {"soy"}),
     CatalogFood("lentils", "Lentils", "protein",
                 1160, 90, 200, 4, 79, TRUE, TRUE, {}),
     CatalogFood("quinoa", "Quinoa", "grain",
                 1200, 44, 213, 19, 28, TRUE, TRUE, {}),
     CatalogFood("oats", "Oats", "grain",
                 3890, 169, 663, 69, 106, TRUE, TRUE, {"gluten"}),
     CatalogFood("white_rice", "White Rice", "carb",
                 1300, 27, 280, 3, 4, TRUE, TRUE, {}),
     CatalogFood("broccoli", "Broccoli", "vegetable",
                 340, 28, 70, 4, 26, TRUE, TRUE, {}),
     CatalogFood("spinach", "Spinach", "vegetable",
                 230, 29, 36, 4, 22, TRUE, TRUE, {}),
     CatalogFood("almonds", "Almonds", "fat",
                 5790, 210, 220, 500, 125, TRUE, TRUE, {"tree nuts"}),
     CatalogFood("olive_oil", "Olive Oil", "fat",
                 8840, 0, 0, 1000, 0, TRUE, TRUE, {}) >>

\* a catalog whose only fat is tagged "nuts"
NutsCatalog ==
  << CatalogFood("tofu", "Tofu", "protein",
                 760, 80, 19, 48, 3, TRUE, TRUE, {"soy"}),
     CatalogFood("chicken_breast", "Chicken Breast", "protein",
                 1650, 310, 0, 36, 0, FALSE, FALSE, {}),
     CatalogFood("white_rice", "White Rice", "carb",
                 1300, 27, 280, 3, 4, TRUE, TRUE, {}),
     CatalogFood("spinach", "Spinach", "vegetable",
                 230, 29, 36, 4, 22, TRUE, TRUE, {}),
     CatalogFood("trail_mix", "Trail Mix", "fat",
                 4620, 130, 450, 290, 50, TRUE, TRUE, {"nuts"}) >>

\* a catalog whose only protein is meat and whose only fat is dairy
ButterCatalog ==
  << CatalogFood("chicken_breast", "Chicken Breast", "protein",
                 1650, 310, 0, 36, 0, FALSE, FALSE, {}),
     CatalogFood("white_rice", "White Rice", "carb",
                 1300, 27, 280, 3, 4, TRUE, TRUE, {}),
     CatalogFood("spinach", "Spinach", "vegetable",
                 230, 29, 36, 4, 22, TRUE, TRUE, {}),
     CatalogFood("butter", "Butter", "fat",
                 7170, 9, 1, 810, 0, TRUE, FALSE, {"dairy"}) >>

Reversed(list) == [i \in 1..Len(list) |-> list[Len(list) + 1 - i]]

Catalogs ==
  {FullCatalog, Reversed(FullCatalog), NutsCatalog,
   SubSeq(FullCatalog, 3, 9), ButterCatalog}

\* _organize_by_category
_organize_by_category(foods) ==
  [category \in {foods[i].category : i \in 1..Len(foods)} |->
     SelectSeq(foods, LAMBDA food : food.category = category)]

\* the inputs of a generate_plan call
PlanInputs ==
  [target_calories : {1200, 2000},
   fitness_goal : {"weight_loss", "maintenance"},
   dietary_restrictions : {<<>>, <<"vegan">>, <<"vegetarian", "dairy">>,
                           <<"no_dairy">>, <<"no_nuts">>}]

\* FoodRecommender(foods_json_path)
NewRecommender(foods) ==
  [foods |-> foods, foods_by_category |-> _organize_by_category(foods),
   calls |-> 0, mixed |-> FALSE, first |-> None, last |-> None]

InitEngine ==
  /\ InitDialogue
  /\ sm = None
  /\ validated = None
  /\ loader = None
  /\ script = None
  /\ app = None
  /\ pipeline = None
  /\ predicted = None
  /\ \E foods \in Catalogs : recommender = NewRecommender(foods)

OtherThanRecommender ==
  <<conversations, disk, now, response, last, written, threads, episode,
    writer, sm, validated, loader,
    script, app, pipeline, predicted, pipeline>>

\* the meal plan of the engine as the validator reads it: the foods have no
\* allergens key; total_protein_g, in tenths, is compared with a whole
\* number of grams, so its integer part decides
AsValidatorPlan(meals) ==
  [m \in {MEAL_DISTRIBUTION[k][1] : k \in 1..Len(meals)} |->
     LET k == CHOOSE j \in 1..Len(meals) : MEAL_DISTRIBUTION[j][1] = m
     IN  Meal([i \in 1..Len(meals[k].foods) |->
                 Food(meals[k].foods[i].name, meals[k].foods[i].portion_g)],
              meals[k].total_protein_g \div 10)]

\* a generate_plan call and, on success, the validation of its plan
GeneratePlan(input) ==
  /\ recommender.calls < MaxGenerate
  /\ \E r \in {generate_plan(recommender.foods_by_category,
                             input.target_calories, input.fitness_goal,
                             input.dietary_restrictions)} :
       \E call \in {[input |-> input,
                     result |-> [status |-> r.status, error |-> r.error,
                                 meal_plan |-> r.meal_plan,
                                 calories |-> r.calories],
                     shown |-> /\ r.status = "success"
                               /\ validate_meal_plan(
                                    AsValidatorPlan(r.meal_plan),
                                    input.target_calories,
                                    input.dietary_restrictions).ok]} :
         recommender' =
           [recommender EXCEPT
              !.foods_by_category = r.foods_by_category,
              !.calls = @ + 1,
              !.mixed = @ \/ (~IsNone(recommender.first)
                              /\ Get(recommender.first).input # input),
              !.first = IF IsNone(@) THEN Some(call) ELSE @,
              !.last = Some(call)]
  /\ UNCHANGED OtherThanRecommender

NextEngine == \E input \in PlanInputs : GeneratePlan(input)

SpecEngine == InitEngine /\ [][NextEngine]_vars

(***************************************************************************)
(* The first generate_plan call on a freshly loaded recommender, over a    *)
(* wider range of targets and goals, with dicts that lack a key or name no *)
(* known goal, and with a catalog that has a data-entry error.             *)
(***************************************************************************)
\* a catalog whose only fat is entered with 0 g of fat
TypoCatalog ==
  << CatalogFood("chicken_breast", "Chicken Breast", "protein",
                 1650, 310, 0, 36, 0, FALSE, FALSE, {}),
     CatalogFood("white_rice", "White Rice", "carb",
                 1300, 27, 280, 3, 4, TRUE, TRUE, {}),
     CatalogFood("spinach", "Spinach", "vegetable",
                 230, 29, 36, 4, 22, TRUE, TRUE, {}),
     CatalogFood("olive_oil", "Olive Oil", "fat",
                 8840, 0, 0, 0, 0, TRUE, TRUE, {}) >>

FirstCatalogs == Catalogs \cup {TypoCatalog}

\* the model2_output dicts of the first call
FirstPlanInputs ==
  [target_calories : {1200, 1999, 2000, 2400, 3300},
   fitness_goal : {"weight_loss", "muscle_gain", "maintenance"},
   dietary_restrictions : {<<>>, <<"vegan">>, <<"vegetarian">>, <<"no_dairy">>}]
  \cup [target_calories : {0, 2000}, fitness_goal : {"bulking", "maintenance"},
        dietary_restrictions : {<<>>}]
  \cup [target_calories : {2700}, fitness_goal : {"muscle_gain"},
        dietary_restrictions : {<<>>}]
  \cup [target_calories : {2000}, fitness_goal : {"maintenance", "bulking"}]
  \cup [target_calories : {2000}, dietary_restrictions : {<<"vegan">>}]
  \cup [fitness_goal : {"maintenance"}, dietary_restrictions : {<<>>}]

\* the try block of generate_plan up to the key lookups: the call on the
\* values read from the dict, or the error of the missing key
generate_plan_from(foods_by_category, model2_output) ==
  IF "target_calories" \notin DOMAIN model2_output
  THEN PlanResult("error", "'target_calories'", <<>>, 0, foods_by_category)
  ELSE IF "fitness_goal" \notin DOMAIN model2_output
  THEN PlanResult("error", "'fitness_goal'", <<>>, 0, foods_by_category)
  ELSE generate_plan(foods_by_category, model2_output.target_calories,
                     model2_output.fitness_goal,
                     IF "dietary_restrictions" \in DOMAIN model2_output
                     THEN model2_output.dietary_restrictions ELSE <<>>)

InitFirstPlan ==
  /\ InitDialogue
  /\ sm = None
  /\ validated = None
  /\ loader = None
  /\ script = None
  /\ app = None
  /\ pipeline = None
  /\ predicted = None
  /\ \E foods \in FirstCatalogs : recommender = NewRecommender(foods)

\* the first generate_plan(model2_output) of the recommender
GenerateFrom(model2_output) ==
  /\ recommender.calls = 0
  /\ \E r \in {generate_plan_from(recommender.foods_by_category,
                                  model2_output)} :
       \E call \in {[input |-> model2_output,
                     result |-> [status |-> r.status, error |-> r.error,
                                 meal_plan |-> r.meal_plan,
                                 calories |-> r.calories]]} :
         recommender' =
           [recommender EXCEPT
              !.foods_by_category = r.foods_by_category,
              !.calls = @ + 1,
              !.first = Some(call),
              !.last = Some(call)]
  /\ UNCHANGED OtherThanRecommender

NextFirstPlan == \E model2_output \in FirstPlanInputs : GenerateFrom(model2_output)

SpecFirstPlan == InitFirstPlan /\ [][NextFirstPlan]_vars

(***************************************************************************)
(* A user sending a fixed sequence of messages to a ConversationManager    *)
(* whose food recommender is the FoodRecommender above, loaded from one of *)
(* the catalogs: process_message with _generate_plan calling predict, the  *)
(* engine's generate_plan and the SafetyValidator.  Only what the pickled  *)
(* model returns and whether formatting raises are drawn per call.         *)
(***************************************************************************)
GoalAnswers == {"gain muscle", "lose weight", "gain but lose", "nope"}

DietAnswers == {"veg", "non-veg", "Non-Vegetarian", "vegan", "none", "I eat meat"}

ActivityAnswers == {"moderate", "active", "very active", "gym", "athlete", "xyz"}

\* the seven-message dialogues, and the six-message dialogue of the tests
Scripts ==
  {<<"hi", g, "70", "170", "25", d, a>> :
     g \in GoalAnswers, d \in DietAnswers, a \in ActivityAnswers}
  \cup {<<"hi", "lose weight", "70", "170", "25", "moderate">>}

ScriptUser == "u1"

ScriptCatalogs == {FullCatalog, ButterCatalog, SubSeq(FullCatalog, 3, 9)}

\* what roadmap_generator.predict can do in a call
RawChoices == RawOutputs \cup {[kind |-> "raise", v |-> NumOf(0)]}

\* the arguments with which the call hands over to the food recommender,
\* if it gets that far
PlanRequest(convs, t, user_id, message, raw) ==
  LET conv     == get_user_conversation(convs, user_id, t)[user_id]
      activity == _match_keyword(message, ACTIVITY_LEVELS)
      profile  == IF conv.current_state = STATE_ONBOARDING_ACTIVITY
                  THEN WriteFields(conv.profile, Assign("activity_level", activity))
                  ELSE conv.profile
  IN  IF \/ ~UsesEnv(convs, t, user_id, message)
         \/ Missing(profile) # {}
         \/ raw.kind = "raise"
      THEN None
      ELSE Some(adapt_model2_to_model3(predict(profile, raw), profile))

\* the dict the wrapper returns, as _generate_plan and the validator read it
MealResult(result) ==
  IF result.status = "success"
  THEN [status |-> "success", meal_plan |-> Some(AsValidatorPlan(result.meal_plan))]
  ELSE [status |-> "error", meal_plan |-> None]

\* with what the pickled model returned in the last call
NewScript(messages) == [messages |-> messages, pos |-> 0, raw |-> NoEnv.raw]

InitScript ==
  /\ InitDialogue
  /\ sm = None
  /\ validated = None
  /\ loader = None
  /\ app = None
  /\ pipeline = None
  /\ predicted = None
  /\ \E foods \in ScriptCatalogs : recommender = NewRecommender(foods)
  /\ \E messages \in Scripts : script = NewScript(messages)

\* the recommender after a generate_plan call made by the pipeline
Served(input, result, shown) ==
  LET call == [input |-> input,
               result |-> [status |-> result.status, error |-> result.error,
                           meal_plan |-> result.meal_plan,
                           calories |-> result.calories],
               shown |-> shown]
  IN  [recommender EXCEPT
         !.foods_by_category = result.foods_by_category,
         !.calls = @ + 1,
         !.mixed = @ \/ (~IsNone(recommender.first)
                         /\ Get(recommender.first).input # input),
         !.first = IF IsNone(@) THEN Some(call) ELSE @,
         !.last = Some(call)]

\* the user sends the next message of the script
Send ==
  /\ script.pos < Len(script.messages)
  /\ \E message \in {script.messages[script.pos + 1]} :
     \E raw \in IF UsesEnv(conversations, now, ScriptUser, message)
                THEN RawChoices ELSE {NoEnv.raw},
        format_raises \in IF UsesEnv(conversations, now, ScriptUser, message)
                          THEN BOOLEAN ELSE {FALSE} :
     \E request \in {PlanRequest(conversations, now, ScriptUser, message, raw)} :
     \E result \in {IF IsNone(request) THEN None
                    ELSE Some(generate_plan(recommender.foods_by_category,
                                            Get(request).target_calories,
                                            Get(request).fitness_goal,
                                            Get(request).dietary_restrictions))} :
     \E r \in {process_message(
                 conversations, now, ScriptUser, message,
                 [raw |-> raw,
                  meal_result |-> IF IsNone(result) THEN NoEnv.meal_result
                                  ELSE MealResult(Get(result)),
                  format_raises |-> format_raises])} :
       /\ conversations' = r.conversations
       /\ disk' = Serialize(r.conversations)
       /\ response' = r.response
       /\ last' = r.call
       /\ written' = [written EXCEPT ![ScriptUser] =
                        IF r.call.reset \/ r.call.expired THEN r.call.wrote
                        ELSE @ \cup r.call.wrote]
       /\ recommender' = IF IsNone(result) THEN recommender
                         ELSE Served(Get(request), Get(result),
                                     r.response.kind = "plan")
       /\ script' = [script EXCEPT !.pos = @ + 1, !.raw = raw]
  /\ UNCHANGED <<sm, validated, loader, app, pipeline, predicted, now,
               threads, episode, writer>>

NextScript == Send

SpecScript == InitScript /\ [][NextScript]_vars

(***************************************************************************)
(* app.py: the /chat and /reset endpoints on the one ConversationManager   *)
(* of the process, which loaded its store from the file at start-up.  A    *)
(* request body is None (no JSON) or a dict; a key that is absent reads as *)
(* None through data.get, here the empty string.  An answer is the status  *)
(* code and the JSON body.                                                 *)
(***************************************************************************)
\* def process_message(self, user_id, message): the arguments it accepts
PROCESS_MESSAGE_PARAMS == 2

\* the dialogues that wrote the stores found at start-up
StoredDialogues ==
  {<<>>, <<"hi">>, <<"hi", "gain muscle", "70.5kg">>,
   <<"hi", "gain muscle", "70.5kg", "170 cm", "25 years old", "veg", "moderate">>}

\* the collaborators while those dialogues ran
StoredEnv ==
  [raw |-> [kind |-> "finite", v |-> NumOf(1800)],
   meal_result |-> [status |-> "success",
                    meal_plan |-> Some(PlanWith(Food("Olive Oil", 8)))],
   format_raises |-> FALSE]

\* the store after user_id sent the messages
RECURSIVE Replay(_, _, _)
Replay(convs, user_id, messages) ==
  IF messages = <<>> THEN convs
  ELSE Bind(process_message(convs, 0, user_id, Head(messages),
                            StoredEnv).conversations,
            LAMBDA stored : Replay(stored, user_id, Tail(messages)))

AppStores ==
  {Replay(Replay(EmptyStore, "u1", d1), "u2", d2) :
     d1 \in StoredDialogues, d2 \in StoredDialogues}

\* request bodies: data.get(key) per key
Body(user_id, message, profile) ==
  Some([user_id |-> user_id, message |-> message, profile |-> profile])

ChatBodies ==
  {None}
  \cup {Body(u, m, p) : u \in {"", "u1", "u2", "u3"},
                        m \in {"", "hi", "reset", "70"},
                        p \in {"", "profile"}}

ResetBodies == {None} \cup {Body(u, "", "") : u \in {"", "u1", "u2", "u3"}}

Answer(code, body, convs) == [code |-> code, body |-> body, conversations |-> convs]

\* chat(): the answer and the store it leaves
chat(convs, t, data, env) ==
  IF IsNone(data)
  THEN Answer(400, [error |-> "Invalid JSON"], convs)
  ELSE IF Get(data).message = "" \/ Get(data).user_id = ""
  THEN Answer(400, [error |-> "Missing message or user_id"], convs)
  ELSE
    LET args == <<Get(data).user_id, Get(data).message, Get(data).profile>>
    IN  IF Len(args) # PROCESS_MESSAGE_PARAMS
        THEN Answer(500, [status |-> "error", error |-> "TypeError"], convs)
        ELSE Bind(process_message(convs, t, args[1], args[2], env), LAMBDA r :
             Bind(get_user_conversation(r.conversations, args[1], t),
                  LAMBDA after :
               Answer(200,
                      [status |-> "success", response |-> r.response,
                       state |-> after[args[1]].current_state,
                       week |-> after[args[1]].profile.current_week],
                      after)))

\* a reset endpoint that rewinds the dialogue and keeps the profile
reset_KeepsProfile(convs, data) ==
  IF IsNone(data)
  THEN Answer(500, [error |-> "AttributeError"], convs)
  ELSE IF Get(data).user_id = ""
  THEN Answer(400, [error |-> "Missing user_id"], convs)
  ELSE Answer(200, [status |-> "success", message |-> "Conversation reset"],
              IF Get(data).user_id \in DOMAIN convs
              THEN [convs EXCEPT ![Get(data).user_id].current_state = STATE_GREETING]
              ELSE convs)

\* reset(): the answer and the store it leaves, saved if the user is known
reset(convs, data) ==
  IF IsNone(data)
  THEN Answer(500, [error |-> "AttributeError"], convs)
  ELSE IF Get(data).user_id = ""
  THEN Answer(400, [error |-> "Missing user_id"], convs)
  ELSE Answer(200, [status |-> "success", message |-> "Conversation reset"],
              IF Get(data).user_id \in DOMAIN convs
              THEN [convs EXCEPT
                      ![Get(data).user_id].current_state = STATE_GREETING,
                      ![Get(data).user_id].profile = NewProfile]
              ELSE convs)

InitApp ==
  /\ \E convs \in AppStores :
       /\ conversations = convs
       /\ disk = Serialize(convs)
  /\ now = 0
  /\ response = Response("")
  /\ last = NoCall
  /\ written = [u \in Users |-> {}]
  /\ threads = [t \in Threads |-> IdleThread]
  /\ episode = NoEpisode
  /\ writer = IdleWriter
  /\ sm = None
  /\ validated = None
  /\ recommender = None
  /\ loader = None
  /\ script = None
  /\ app = None
  /\ pipeline = None
  /\ predicted = None

OtherThanApp ==
  <<now, response, last, written, threads, episode, writer, sm, validated,
    recommender, loader, script, pipeline, predicted>>

\* POST /chat
Chat ==
  \E data \in ChatBodies :
    \E a \in {chat(conversations, now, data, NoEnv)} :
      /\ conversations' = a.conversations
      /\ disk' = IF a.code = 200 THEN Serialize(a.conversations) ELSE disk
      /\ app' = Some([endpoint |-> "chat", data |-> data, code |-> a.code,
                      body |-> a.body, before |-> conversations,
                      disk_before |-> disk])
      /\ UNCHANGED OtherThanApp

\* POST /reset
Reset ==
  \E data \in ResetBodies :
    \E a \in {reset(conversations, data)} :
      /\ conversations' = a.conversations
      /\ disk' = IF a.code = 200 /\ Get(data).user_id \in DOMAIN conversations
                 THEN Serialize(a.conversations) ELSE disk
      /\ app' = Some([endpoint |-> "reset", data |-> data, code |-> a.code,
                      body |-> a.body, before |-> conversations,
                      disk_before |-> disk])
      /\ UNCHANGED OtherThanApp

NextApp == Chat \/ Reset

SpecApp == InitApp /\ [][NextApp]_vars

(***************************************************************************)
(* pipeline.py: FitnessChatbotPipeline.process_message on its              *)
(* StateManager and FoodRecommender.  The intent is what the classifier    *)
(* returned for the message, raw what the pickled model returned for the   *)
(* calories; the predicted target weight is 68 kg.  A result is the        *)
(* status, the intent and the week of the user_state it carries (None in   *)
(* an error result, which has neither).                                    *)
(***************************************************************************)
\* bound: the process_message calls made on one pipeline
MaxRequests == 3

PLAN_INTENTS ==
  {"weight_loss_plan", "muscle_gain_plan", "maintenance_plan",
   "diet_suggestion", "food_plan", "meal_plan"}

\* what the classifier returns
Intents == {"weight_loss_plan", "meal_plan", "progress_query", "greeting"}

PipelineUsers == {"u1", "u2"}

PipelineCatalogs == {FullCatalog, ButterCatalog}

\* the storage files a pipeline starts on: no user, or a user in week 3
\* whose restrictions were set through set_user_restrictions
PipelineStores ==
  {EmptyStore,
   update_user_profile(
     update_user_progress(
       update_user_progress(EmptyStore, "u1", [target_weight_kg |-> None]),
       "u1", [target_weight_kg |-> None]),
     "u1", Assign("dietary_restrictions", <<"vegan">>))}

\* get_user_state: the profile returned and the storage it leaves
get_user_state(storage, user_id, intent) ==
  IF user_id \in DOMAIN storage
  THEN [user_state |-> storage[user_id], storage |-> storage]
  ELSE LET goal == IF Contains(Lower(intent), "weight_loss") THEN "weight_loss"
                   ELSE IF Contains(Lower(intent), "muscle") THEN "muscle_gain"
                   ELSE IF Contains(Lower(intent), "maintenance") THEN "maintenance"
                   ELSE DEFAULT_PROFILE.fitness_goal
           created == [WithProfile(storage, user_id) EXCEPT
                         ![user_id].fitness_goal = goal]
       IN  [user_state |-> created[user_id], storage |-> created]

\* FitnessChatbotPipeline._validate_safety: no error is found
Pipeline_validate_safety(meals) ==
  /\ \A k \in 1..Len(meals) :
       MEAL_DISTRIBUTION[k][1] \in {"breakfast", "lunch", "dinner"} =>
         ~(meals[k].total_protein_g < 10 * MIN_PROTEIN_PER_MEAL)
  /\ \A k \in 1..Len(meals) : \A i \in 1..Len(meals[k].foods) :
       LET portion == meals[k].foods[i].portion_g
       IN  portion > REPORTED_ABOVE =>
             ~(portion < MIN_PORTION \/ portion > MAX_PORTION)

PipelineAnswer(status, intent, week, file, foods_by_category) ==
  [result |-> [status |-> status, intent |-> intent, week |-> week],
   file |-> file, foods_by_category |-> foods_by_category]

\* a pipeline that advances the week before it validates the plan
Pipeline_process_message_CountsFirst(file, foods_by_category, intent, user_id, raw) ==
  Bind(get_user_state(_read_storage(file).items, user_id, intent), LAMBDA got :
    PipelineAnswer(IF intent \in PLAN_INTENTS /\ raw.kind # "raise"
                   THEN "error" ELSE "success",
                   intent, None,
                   _write_storage(
                     IF intent \in PLAN_INTENTS
                     THEN update_user_progress(got.storage, user_id,
                                               [target_weight_kg |-> Some(68)])
                     ELSE got.storage),
                   foods_by_category))

\* process_message: the result, the storage file and the category lists
\* it leaves
Pipeline_process_message(file, foods_by_category, intent, user_id, raw) ==
  Bind(get_user_state(_read_storage(file).items, user_id, intent), LAMBDA got :
  Bind(IF user_id \in DOMAIN _read_storage(file).items THEN file
       ELSE _write_storage(got.storage), LAMBDA created :
    IF intent \notin PLAN_INTENTS
    THEN PipelineAnswer("success", intent, Some(got.user_state.week),
                        created, foods_by_category)
    ELSE IF raw.kind = "raise"
    THEN PipelineAnswer("error", "", None, created, foods_by_category)
    ELSE
      Bind(predict([fitness_goal |-> Some(got.user_state.fitness_goal),
                    gender |-> got.user_state.gender,
                    dietary_restrictions |->
                      got.user_state.dietary_restrictions], raw),
           LAMBDA roadmap :
      Bind(generate_plan(foods_by_category, roadmap.target_calories,
                         roadmap.fitness_goal, roadmap.dietary_restrictions),
           LAMBDA meal_result :
        IF meal_result.status # "success"
        THEN PipelineAnswer("error", "", None, created,
                            meal_result.foods_by_category)
        ELSE IF ~Pipeline_validate_safety(meal_result.meal_plan)
        THEN PipelineAnswer("error", "", None, created,
                            meal_result.foods_by_category)
        ELSE PipelineAnswer("success", intent, Some(got.user_state.week),
                            _write_storage(
                              update_user_progress(
                                _read_storage(created).items, user_id,
                                [target_weight_kg |-> Some(68)])),
                            meal_result.foods_by_category)))))

\* FitnessChatbotPipeline(base_dir) on a storage file and a food database
NewPipeline(storage, foods) ==
  [file |-> _write_storage(storage),
   foods_by_category |-> _organize_by_category(foods),
   start |-> storage, requests |-> 0,
   plans |-> [u \in PipelineUsers |-> 0],
   before |-> storage, user_id |-> "", raw |-> NoEnv.raw,
   result |-> None]

InitPipeline ==
  /\ InitDialogue
  /\ sm = None
  /\ validated = None
  /\ recommender = None
  /\ loader = None
  /\ script = None
  /\ app = None
  /\ predicted = None
  /\ \E storage \in PipelineStores : \E foods \in PipelineCatalogs :
       pipeline = NewPipeline(storage, foods)

OtherThanPipeline ==
  <<conversations, disk, now, response, last, written, threads, episode,
    writer, sm, validated, recommender, loader, script, app, predicted>>

\* pipeline.process_message(user_message, user_id)
PipelineRequest(user_id, intent, raw) ==
  /\ pipeline.requests < MaxRequests
  /\ \E a \in {Pipeline_process_message(pipeline.file,
                                        pipeline.foods_by_category,
                                        intent, user_id, raw)} :
       pipeline' =
         [pipeline EXCEPT
            !.file = a.file,
            !.foods_by_category = a.foods_by_category,
            !.requests = @ + 1,
            !.plans[user_id] =
              IF a.result.status = "success" /\ intent \in PLAN_INTENTS
              THEN @ + 1 ELSE @,
            !.before = _read_storage(pipeline.file).items,
            !.user_id = user_id,
            !.raw = raw,
            !.result = Some([status |-> a.result.status,
                             intent |-> intent,
                             week |-> a.result.week])]
  /\ UNCHANGED OtherThanPipeline

NextPipeline ==
  \E user_id \in PipelineUsers : \E intent \in Intents :
    \E raw \in RawChoices : PipelineRequest(user_id, intent, raw)

SpecPipeline == InitPipeline /\ [][NextPipeline]_vars

(***************************************************************************)
(* RoadmapGenerator.predict applied to a user state and a raw model        *)
(* output drawn from the sets below.                                       *)
(***************************************************************************)
\* fitness goals as the profiles hold them, and as free text
PredictGoals ==
  {Some("muscle_gain"), Some("weight_loss"), Some("maintenance"), None,
   Some("Gain Muscle"), Some("weight loss"), Some("cut")}

PredictUserStates ==
  [fitness_goal : PredictGoals, gender : {"male", "female", "other"},
   dietary_restrictions : {<<>>}]

\* raw calorie outputs: negative, zero, below and at the outlier
\* threshold, around the floors, with and without a fractional part, and
\* the non-finite ones
PredictRaws ==
  {[kind |-> "finite", v |-> [n |-> n, d |-> 1]] :
     n \in {-500, 0, 1, 999, 1000, 1199, 1200, 1499, 1500, 2399, 2400,
            2699, 2700, 3000}}
  \cup {[kind |-> "finite", v |-> [n |-> n, d |-> 10]] :
          n \in {-5, 5, 9999, 10005, 11999, 23999, 24007, 26999, 27001}}
  \cup {[kind |-> k, v |-> NumOf(0)] : k \in {"nan", "inf", "-inf"}}

InitPredict ==
  /\ InitDialogue
  /\ sm = None
  /\ validated = None
  /\ recommender = None
  /\ loader = None
  /\ script = None
  /\ app = None
  /\ pipeline = None
  /\ \E user_state \in PredictUserStates : \E raw \in PredictRaws :
       predicted = [user_state |-> user_state, raw |-> raw, roadmap |-> None]

\* roadmap_generator.predict(user_state)
Predict ==
  /\ IsNone(predicted.roadmap)
  /\ predicted' = [predicted EXCEPT
                     !.roadmap = Some(predict(predicted.user_state,
                                              predicted.raw))]
  /\ UNCHANGED <<conversations, disk, now, response, last, written, threads,
                 episode, writer, sm, validated, recommender, loader, script,
                 app, pipeline>>

NextPredict == Predict

SpecPredict == InitPredict /\ [][NextPredict]_vars

(***************************************************************************)
(* Properties of the dialogue (specification Spec).                        *)
(***************************************************************************)
\* the collaborators the last call invoked, and those that returned normally
Invoked == {c[1] : c \in last.calls}

Succeeded == {c[1] : c \in {d \in last.calls : d[2] = "ok"}}

\* C1: in every dialogue state and with every profile content, a process
\* call whose message, trimmed and lower-cased, is a reset token leaves
\* current_state = greeting and the profile equal to a fresh one (the five
\* onboarding fields unset, dietary_restrictions empty, gender "female",
\* current_week 1).
C1_ResetClearsEverything ==
  [][\A user_id \in Users, message \in Messages :
       (IsResetMessage(message) /\ ProcessMessage(user_id, message))
         => /\ conversations'[user_id].current_state = STATE_GREETING
            /\ conversations'[user_id].profile = NewProfile]_vars

\* a reset received while a plan is shown and the profile is complete has
\* taken the dialogue back to the greeting
C1_Witness ==
  /\ last.reset
  /\ last.state_in = STATE_SHOWING_ROADMAP
  /\ conversations[last.user].current_state = STATE_GREETING
  /\ conversations[last.user].profile = NewProfile

\* C2: a plan is shown only after it passed the safety gates.  A call in
\* which current_state becomes showing_roadmap, or whose response carries
\* a plan, is one in which predict, generate_plan and validate_meal_plan
\* all returned normally, and the plan carried passes validate_meal_plan;
\* a call in which one of the collaborators failed or raised returns no
\* plan and does not leave current_state = showing_roadmap.
C2_PlanOnlyAfterGates ==
  /\ [](~IsNone(response.plan)
          => /\ {"predict", "generate_plan", "validate"} \subseteq Succeeded
             /\ validate_meal_plan(
                  Get(response.plan), 0,
                  conversations[last.user].profile.dietary_restrictions).ok)
  /\ []((Invoked # {} /\ Invoked # Succeeded)
          => /\ IsNone(response.plan)
             /\ conversations[last.user].current_state # STATE_SHOWING_ROADMAP)
  /\ [][\A user_id \in Users :
          (/\ user_id \in DOMAIN conversations'
           /\ conversations'[user_id].current_state = STATE_SHOWING_ROADMAP
           /\ \/ user_id \notin DOMAIN conversations
              \/ conversations[user_id].current_state # STATE_SHOWING_ROADMAP)
            => /\ last'.user = user_id
               /\ {"predict", "generate_plan", "validate"}
                    \subseteq {c[1] : c \in {d \in last'.calls : d[2] = "ok"}}]_vars

\* the call that completed the profile ran the whole pipeline and shows
\* the plan
C2_Witness ==
  /\ last.state_in = STATE_ONBOARDING_ACTIVITY
  /\ ~IsNone(response.plan)
  /\ Succeeded = {"predict", "generate_plan", "validate", "format"}
  /\ conversations[last.user].current_state = STATE_SHOWING_ROADMAP

\* C3: in every reachable state, predict and generate_plan have been
\* invoked only with weight_kg, height_cm, age, activity_level and
\* fitness_goal all set, and a record whose current_state is ready_for_plan
\* or showing_roadmap has all five set.
C3_GenerationOnlyWithCompleteProfile ==
  /\ (Invoked \cap {"predict", "generate_plan"} # {}
        => Missing(conversations[last.user].profile) = {})
  /\ \A user_id \in DOMAIN conversations :
        conversations[user_id].current_state
            \in {STATE_READY_FOR_PLAN, STATE_SHOWING_ROADMAP}
          => Missing(conversations[user_id].profile) = {}

\* the pipeline ran on a complete profile and did not deliver a plan
C3_Witness ==
  /\ "generate_plan" \in Invoked
  /\ last.user \in DOMAIN conversations
  /\ conversations[last.user].current_state = STATE_READY_FOR_PLAN
  /\ Missing(conversations[last.user].profile) = {}

\* the order of the dialogue states
STATE_ORDER ==
  <<STATE_GREETING, STATE_ONBOARDING_GOAL, STATE_ONBOARDING_WEIGHT,
    STATE_ONBOARDING_HEIGHT, STATE_ONBOARDING_AGE, STATE_ONBOARDING_DIET,
    STATE_ONBOARDING_ACTIVITY, STATE_READY_FOR_PLAN, STATE_SHOWING_ROADMAP>>

Rank(state) == CHOOSE i \in 1..Len(STATE_ORDER) : STATE_ORDER[i] = state

\* the step is a process call of user_id with a reset token
IsResetCall(user_id) ==
  \E message \in Messages :
    IsResetMessage(message) /\ ProcessMessage(user_id, message)

\* C4 as stated: every change of current_state made by a process call
\* moves forward in the order of the states, or is a return to greeting
\* made by a call with a reset token.
C4_Original ==
  [][\A user_id \in DOMAIN conversations :
       LET old == conversations[user_id].current_state
           new == conversations'[user_id].current_state
       IN  \/ new = old
           \/ Rank(new) > Rank(old)
           \/ new = STATE_GREETING /\ IsResetCall(user_id)]_vars

\* C4 amended: every change of current_state made by a process call moves
\* forward in the order of the states, or is a return to greeting made by
\* a call with a reset token, or is made by a call that arrives more than
\* STALE_DAYS days after last_interaction and leaves the dialogue at
\* onboarding_goal (the expired session restarts from the greeting).
C4_ForwardResetOrExpiry ==
  [][\A user_id \in DOMAIN conversations :
       LET old == conversations[user_id].current_state
           new == conversations'[user_id].current_state
       IN  \/ new = old
           \/ Rank(new) > Rank(old)
           \/ new = STATE_GREETING /\ IsResetCall(user_id)
           \/ /\ IsStale(conversations[user_id], now)
              /\ new = STATE_ONBOARDING_GOAL]_vars

\* a call after the session expired has taken a dialogue with a complete
\* profile back to onboarding_goal without any reset
C4_Witness ==
  /\ last.expired
  /\ ~last.reset
  /\ conversations[last.user].current_state = STATE_ONBOARDING_GOAL
  /\ Missing(conversations[last.user].profile) = {}

\* the states that expect a number
NUMERIC_STATES ==
  {STATE_ONBOARDING_WEIGHT, STATE_ONBOARDING_HEIGHT, STATE_ONBOARDING_AGE}

HasDigit(message) == \E i \in 1..Len(message) : IsDigit(CharAt(message, i))

\* the call left the record of user_id as it was, but for last_interaction
LeftAlone(user_id) ==
  /\ conversations'[user_id].current_state = conversations[user_id].current_state
  /\ conversations'[user_id].profile = conversations[user_id].profile

\* C5 as stated: a message without a digit that is handled in
\* onboarding_weight, onboarding_height or onboarding_age is answered with
\* the "I need a number" re-prompt and changes neither current_state nor
\* the profile.
C5_Original ==
  [][\A user_id \in DOMAIN conversations, message \in Messages :
       (/\ last'.state_in \in NUMERIC_STATES
        /\ ~HasDigit(message)
        /\ ProcessMessage(user_id, message))
         => /\ response'.kind \in {"weight_need_number", "height_need_number",
                                  "age_need_number"}
            /\ LeftAlone(user_id)]_vars

\* C5 amended: the same, for a message without a digit that is not a reset
\* token.
C5_NoDigitNoResetIsReprompted ==
  [][\A user_id \in DOMAIN conversations, message \in Messages :
       (/\ last'.state_in \in NUMERIC_STATES
        /\ ~HasDigit(message)
        /\ ~IsResetMessage(message)
        /\ ProcessMessage(user_id, message))
         => /\ response'.kind \in {"weight_need_number", "height_need_number",
                                  "age_need_number"}
            /\ LeftAlone(user_id)]_vars

\* the age prompt has just refused a message without a number
C5_Witness ==
  /\ last.state_in = STATE_ONBOARDING_AGE
  /\ response.kind = "age_need_number"
  /\ conversations[last.user].current_state = STATE_ONBOARDING_AGE
  /\ IsNone(conversations[last.user].profile.age)

\* the number in the message is not one the prompt of this state accepts
OutOfRange(state, message) ==
  LET x == _extract_number(message)
  IN  /\ ~IsNone(x)
      /\ \/ state = STATE_ONBOARDING_WEIGHT
            /\ ~(NumGe(Get(x), 40) /\ NumLe(Get(x), 200))
         \/ state = STATE_ONBOARDING_HEIGHT
            /\ ~(NumGe(Get(x), 100) /\ NumLe(Get(x), 250))
         \/ state = STATE_ONBOARDING_AGE
            /\ ~(NumGe(Get(x), 13) /\ NumLe(Get(x), 100))

\* C6: in every reachable state a set weight_kg lies in [40,200], a set
\* height_cm in [100,250] and a set age is an integer in [13,100]; a
\* message whose number is out of the range of the prompt that handles it
\* is answered with the out-of-range re-prompt and changes neither
\* current_state nor the profile.
C6_RangesHold ==
  /\ [](\A user_id \in DOMAIN conversations :
          LET profile == conversations[user_id].profile
          IN  /\ ~IsNone(profile.weight_kg)
                   => /\ NumGe(Get(profile.weight_kg), 40)
                      /\ NumLe(Get(profile.weight_kg), 200)
              /\ ~IsNone(profile.height_cm)
                   => /\ NumGe(Get(profile.height_cm), 100)
                      /\ NumLe(Get(profile.height_cm), 250)
              /\ ~IsNone(profile.age) => Get(profile.age) \in 13..100)
  /\ [][\A user_id \in DOMAIN conversations, message \in Messages :
          (/\ last'.state_in \in NUMERIC_STATES
           /\ OutOfRange(last'.state_in, message)
           /\ ProcessMessage(user_id, message))
            => /\ response'.kind \in {"weight_out_of_range",
                                     "height_out_of_range", "age_out_of_range"}
               /\ LeftAlone(user_id)]_vars

\* the height prompt has just refused a number below its range, with a
\* weight already stored
C6_Witness ==
  /\ last.state_in = STATE_ONBOARDING_HEIGHT
  /\ response.kind = "height_out_of_range"
  /\ conversations[last.user].current_state = STATE_ONBOARDING_HEIGHT
  /\ ~IsNone(conversations[last.user].profile.weight_kg)
  /\ IsNone(conversations[last.user].profile.height_cm)

\* the profile fields filled during onboarding
ONBOARDING_FIELDS ==
  {"weight_kg", "height_cm", "age", "activity_level", "fitness_goal",
   "dietary_restrictions"}

\* C7 as stated: once one of weight_kg, height_cm, age, activity_level,
\* fitness_goal, dietary_restrictions has been set, no process call changes
\* it unless the call carries a reset token.
C7_Original ==
  [][\A user_id \in DOMAIN conversations, f \in ONBOARDING_FIELDS :
       LET old == conversations[user_id].profile[f]
           new == conversations'[user_id].profile[f]
       IN  (old # NewProfile[f] /\ new # old) => IsResetCall(user_id)]_vars

\* C7 amended: between two events that restart the dialogue (a reset token,
\* or a call arriving more than STALE_DAYS days after last_interaction)
\* each onboarding field is written at most once: a process call assigns
\* only fields that no call has assigned since the last restart.
C7_WrittenOncePerRestart ==
  [][\A user_id \in Users :
       (last'.user = user_id /\ now' = now)
         => last'.wrote \cap (IF last'.reset \/ last'.expired
                              THEN {} ELSE written[user_id]) = {}]_vars

\* after an expired session the goal has been assigned again, over a
\* profile that was already complete, without a reset
C7_Witness ==
  /\ last.wrote = {"fitness_goal"}
  /\ ~last.reset
  /\ ~last.expired
  /\ Missing(conversations[last.user].profile) = {}
  /\ conversations[last.user].current_state = STATE_ONBOARDING_WEIGHT

\* C8: a process call that arrives more than 7 days after the record's
\* last_interaction is handled with current_state = greeting, and unless
\* its message is a reset token the profile keeps its values; a call that
\* arrives within 7 days is handled in the stored current_state.
C8_ExpiryRewindsOnlyTheCursor ==
  [][\A user_id \in DOMAIN conversations :
       (last'.user = user_id /\ now' = now)
         => IF now - conversations[user_id].last_interaction > 7
            THEN /\ last'.state_in = STATE_GREETING
                 /\ \/ conversations'[user_id].profile
                         = conversations[user_id].profile
                    \/ IsResetCall(user_id)
            ELSE last'.state_in = conversations[user_id].current_state]_vars

\* an expired session with a stored weight has been greeted again
C8_Witness ==
  /\ last.expired
  /\ last.state_in = STATE_GREETING
  /\ response.kind = "greeting"
  /\ ~IsNone(conversations[last.user].profile.weight_kg)
  /\ conversations[last.user].last_interaction = now

\* the record the store file holds for the user
Persisted(user_id) == _load_conversations(disk)[user_id]

C24_FailureLeavesStateUnchanged ==
  (<<"predict", "raised">> \in last.calls
     \/ <<"generate_plan", "failed">> \in last.calls) =>
    /\ response.kind \in {"system_error", "plan_error"}
    /\ IsNone(response.plan)
    /\ conversations[last.user].current_state = last.state_in
    /\ last.wrote = {}

\* the outcome of the plan generation the last call invoked: the plan was
\* generated, validated and formatted
PlanDelivered(calls) ==
  calls = {<<"predict", "ok">>, <<"generate_plan", "ok">>,
           <<"validate", "ok">>, <<"format", "ok">>}

\* the call r ran the plan generation and left the record of user_id at
\* showing_roadmap with the plan as its response, or at ready_for_plan
\* without a plan
GenerationOutcome(r, user_id) ==
  /\ "predict" \in {c[1] : c \in r.call.calls}
  /\ r.conversations[user_id].current_state =
       IF PlanDelivered(r.call.calls) THEN STATE_SHOWING_ROADMAP
       ELSE STATE_READY_FOR_PLAN
  /\ PlanDelivered(r.call.calls) <=> ~IsNone(r.response.plan)

\* C36: in every reachable state, a call handled in onboarding_activity
\* whose message names an activity level stores it as activity_level and
\* invokes plan generation in the same call; the call leaves
\* current_state = showing_roadmap, with the plan as the response, if the
\* plan was generated, validated and formatted, and current_state =
\* ready_for_plan otherwise.  A call handled in ready_for_plan whose
\* message is not a reset token invokes plan generation again, with the
\* same two outcomes, and changes no profile field.  This for every
\* behaviour of the collaborators.
C36_ActivityAnswerGeneratesAtOnce ==
  \A user_id \in DOMAIN conversations, message \in Messages :
    Bind(get_user_conversation(conversations, user_id, now)[user_id],
         LAMBDA conv :
      (/\ conv.current_state \in {STATE_ONBOARDING_ACTIVITY, STATE_READY_FOR_PLAN}
       /\ ~IsResetMessage(message)
       /\ conv.current_state = STATE_ONBOARDING_ACTIVITY
            => ~IsNone(_match_keyword(message, ACTIVITY_LEVELS)))
        => \A env \in Envs :
             Bind(process_message(conversations, now, user_id, message, env),
                  LAMBDA r :
               /\ GenerationOutcome(r, user_id)
               /\ IF conv.current_state = STATE_ONBOARDING_ACTIVITY
                  THEN /\ r.call.wrote = {"activity_level"}
                       /\ r.conversations[user_id].profile =
                            [conv.profile EXCEPT !.activity_level =
                               _match_keyword(message, ACTIVITY_LEVELS)]
                  ELSE /\ r.call.wrote = {}
                       /\ r.conversations[user_id].profile = conv.profile))

\* a message in ready_for_plan has run the generation again, this time
\* with success, after the activity answer's own generation had failed
C36_Witness ==
  /\ last.state_in = STATE_READY_FOR_PLAN
  /\ ~last.reset
  /\ PlanDelivered(last.calls)
  /\ conversations[last.user].current_state = STATE_SHOWING_ROADMAP
  /\ ~IsNone(conversations[last.user].profile.activity_level)

\* C37: a call handled in showing_roadmap whose message is not a reset
\* token returns the static guidance text, invokes no collaborator (neither
\* the predictor nor the plan generation), and leaves current_state and
\* the profile as they were; a record in showing_roadmap changes its
\* current_state or its profile only in a call with a reset token or in a
\* call that arrives after the session expired.
C37_ShowingPlanIsLeftOnlyByReset ==
  /\ []((last.state_in = STATE_SHOWING_ROADMAP /\ ~last.reset)
          => /\ response = Response("showing_static")
             /\ last.calls = {}
             /\ last.wrote = {}
             /\ conversations[last.user].current_state = STATE_SHOWING_ROADMAP)
  /\ [][\A user_id \in DOMAIN conversations :
          (/\ conversations[user_id].current_state = STATE_SHOWING_ROADMAP
           /\ ~LeftAlone(user_id))
            => /\ last'.user = user_id
               /\ \/ last'.reset /\ last'.state_in = STATE_SHOWING_ROADMAP
                  \/ last'.expired /\ IsStale(conversations[user_id], now)]_vars

\* a message that is not a reset token was answered with the guidance
\* text while the plan was shown, and the plan is still the current state
C37_Witness ==
  /\ last.state_in = STATE_SHOWING_ROADMAP
  /\ ~last.reset
  /\ ~last.expired
  /\ response.kind = "showing_static"
  /\ conversations[last.user].current_state = STATE_SHOWING_ROADMAP
  /\ Missing(conversations[last.user].profile) = {}

\* C38: the message that follows a reset is treated as the goal answer: a
\* call that comes right after a call with a reset token, before the
\* session expires, and whose message names a goal stores it as
\* fitness_goal and leaves current_state = onboarding_weight, without a new
\* greeting.
C38_GoalRightAfterReset ==
  [][\A user_id \in DOMAIN conversations, message \in Messages :
       (/\ last.reset
        /\ last.user = user_id
        /\ response.kind = "reset_ack"
        /\ ~IsStale(conversations[user_id], now)
        /\ ~IsResetMessage(message)
        /\ ~IsNone(_match_keyword(message, GOALS))
        /\ ProcessMessage(user_id, message))
         => /\ conversations'[user_id].profile.fitness_goal =
                 _match_keyword(message, GOALS)
            /\ conversations'[user_id].current_state = STATE_ONBOARDING_WEIGHT
            /\ response'.kind # "greeting"]_vars

(***************************************************************************)
(* Properties of concurrent calls (specification SpecConc).                *)
(***************************************************************************)
\* the store after the calls a and then b, one after the other
Serial(before, a, b) ==
  process_message(
    process_message(before, now, a.user, a.message, a.env).conversations,
    now, b.user, b.message, b.env).conversations

\* a call that ran alone leaves what process_message leaves
AloneIsSequential ==
  (InFlight = {} /\ Len(episode.calls) = 1)
    => LET a == episode.calls[1]
       IN  /\ conversations
                = process_message(episode.before, now, a.user, a.message,
                                  a.env).conversations
           /\ disk = Serialize(conversations)

\* C9: when two process calls for the same user ran in parallel, the store
\* in memory and the store on disk are those left by running the two calls
\* one after the other, in one order or the other.
C9_SameUserCallsSerialized ==
  (/\ InFlight = {}
   /\ Len(episode.calls) = 2
   /\ episode.calls[1].user = episode.calls[2].user)
    => \E o \in {<<1, 2>>, <<2, 1>>} :
         LET s == Serial(episode.before, episode.calls[o[1]],
                         episode.calls[o[2]])
         IN  conversations = s /\ disk = Serialize(s)

(***************************************************************************)
(* Properties of the store file (specification SpecCrash).                 *)
(***************************************************************************)
\* a process that dies between saves finds its store again
IdleCrashLosesNothing ==
  writer.pc = "idle" => _load_conversations(disk) = conversations

\* C10: at every point of a save, the point where the process may crash,
\* the file holds the complete content it had before the save or the
\* complete content being saved.
C10_SaveIsAtomic ==
  writer.pc \in {"open", "write"}
    => disk \in {writer.previous, Head(writer.pending)}

(***************************************************************************)
(* Properties of the StateManager (specification SpecSM).                  *)
(***************************************************************************)
\* the storage the file holds
Stored == _read_storage(sm.file).items

\* C11: when no update call is in progress, the stored week of every user
\* has grown by exactly the number of update_user_progress calls completed
\* for that user, and the restrictions set for a user by a completed
\* update_user_profile call are stored, whatever calls for the same or for
\* other users ran at the same time
C11_NoUpdateIsLost ==
  (\A t \in Threads : sm.calls[t].pc = "idle") =>
    \A u \in SMUsers :
      /\ sm.progressed[u] > 0 =>
           /\ u \in DOMAIN Stored
           /\ Stored[u].week = DEFAULT_PROFILE.week + sm.progressed[u]
      /\ u \in sm.restricted =>
           /\ u \in DOMAIN Stored
           /\ Stored[u].dietary_restrictions = <<"vegetarian">>

(***************************************************************************)
(* Properties of a reader starting on a store file (specification          *)
(* SpecLoad).                                                              *)
(***************************************************************************)
\* the store file is missing, or what it holds is not a JSON document
Damaged(file) == ReadOutcome(file) # ""

\* C13: a reader that finds the store missing or corrupt does not raise
\* when it loads it, and its next access for any user id yields a fresh
\* record: in Greeting with the profile of a new conversation for the
\* ConversationManager, the default profile for the StateManager
C13_DamagedStoreReadsAsEmpty ==
  (Damaged(loader.file) /\ loader.pc # "start") =>
    /\ loader.raised = ""
    /\ loader.pc = "accessed" =>
         \E user_id \in SMUsers :
           loader.record =
             Some(IF loader.reader = "StateManager"
                  THEN ColdStartProfile(user_id)
                  ELSE NewConversation(now))

(***************************************************************************)
(* Properties of the SafetyValidator (specification SpecValidate).         *)
(***************************************************************************)
\* the <<meal_name, food>> pairs of the plan handed to the validator
PlanFoods == FoodsOf(PlanItems(validated.meal_plan))

\* the pairs whose food carries an allergen tag named in the restrictions
TaggedPairs ==
  {i \in 1..Len(PlanFoods) :
     PlanFoods[i][2].allergens \cap SeqRange(validated.restrictions) # {}}

Validated == ~IsNone(validated.result)

Errors == Get(validated.result).errors

\* the name of the food is on the small-portion lists, whatever its case
OnSmallPortionList(food) ==
  \E w \in SeqRange(CONDIMENTS) \cup SeqRange(OILS_AND_FATS) :
    Contains(Lower(food.name), w)

PortionOutOfRange(food) ==
  IF OnSmallPortionList(food)
  THEN food.portion_g \notin CONDIMENT_MIN_G..CONDIMENT_MAX_G
  ELSE food.portion_g \notin REGULAR_MIN_G..REGULAR_MAX_G

\* the message is a portion violation naming this food
IsPortionErrorFor(error, food) ==
  error \in {"Condiment portion unusual: " \o food.name,
             "Portion too small: " \o food.name,
             "Portion too large: " \o food.name}

\* the pairs whose portion is out of range, in meal order
BadPortions == SelectSeq(PlanFoods, LAMBDA pair : PortionOutOfRange(pair[2]))

\* the main meals of the plan below the protein threshold
LowMeals ==
  {m \in {"breakfast", "lunch", "dinner"} :
     /\ m \in DOMAIN validated.meal_plan
     /\ validated.meal_plan[m].total_protein_g < MAIN_MEAL_MIN_PROTEIN}

\* C16: if a food of the plan carries an allergen tag that is in the
\* restrictions, the validator returns failure with exactly one violation,
\* the allergen violation of such a food in its meal, whatever the
\* portions and the protein of the plan
C16_AllergenFailsFast ==
  (Validated /\ TaggedPairs # {}) =>
    /\ ~Get(validated.result).ok
    /\ Len(Errors) = 1
    /\ \E i \in TaggedPairs :
         Errors[1] = "[SAFETY] ALLERGEN VIOLATION: " \o PlanFoods[i][2].name
                       \o " in " \o PlanFoods[i][1]

\* a validated plan with a restricted allergen, a portion out of range and
\* a main meal low in protein
C16_Witness ==
  /\ Validated
  /\ TaggedPairs # {}
  /\ Len(BadPortions) > 0
  /\ LowMeals # {}
  /\ Len(Errors) = 1

C18_OkIffNothingCollected ==
  (Validated /\ TaggedPairs = {}) =>
    /\ Get(validated.result).ok <=> (Len(BadPortions) = 0 /\ LowMeals = {})
    /\ Get(validated.result).ok <=> Errors = <<>>
    /\ \A m \in LowMeals :
         Cardinality({i \in 1..Len(Errors) :
                        Errors[i] = "Low protein: " \o m}) = 1
    /\ \A i \in 1..Len(Errors) :
         StartsWith(Errors[i], "Low protein: ") =>
           \E m \in LowMeals : Errors[i] = "Low protein: " \o m

\* a validated plan whose only shortfall is the protein of the snack, found
\* valid
C18_Witness ==
  /\ Validated
  /\ TaggedPairs = {}
  /\ validated.meal_plan.snack.total_protein_g < MAIN_MEAL_MIN_PROTEIN
  /\ LowMeals = {}
  /\ Get(validated.result).ok

(***************************************************************************)
(* Properties of the FoodRecommender (specification SpecEngine).           *)
(***************************************************************************)
Called == ~IsNone(recommender.last)

LastCall == Get(recommender.last)

\* the catalog entries of the foods in the meals of the last plan
ServedFoods ==
  {food \in SeqRange(recommender.foods) :
     \E k \in 1..Len(LastCall.result.meal_plan) :
       \E i \in 1..Len(LastCall.result.meal_plan[k].foods) :
         LastCall.result.meal_plan[k].foods[i].id = food.id}

\* the allergen tags the restrictions name, as the tag itself (the form
\* the SafetyValidator matches) or as no_<tag> (the form the
\* FoodRecommender matches)
RestrictedTags ==
  {tag \in UNION {food.allergens : food \in SeqRange(recommender.foods)} :
     \/ tag \in SeqRange(LastCall.input.dietary_restrictions)
     \/ ("no_" \o tag) \in SeqRange(LastCall.input.dietary_restrictions)}

\* C14: whatever the catalog, the target and the goal, no food in a meal
\* of a plan that generate_plan returned with status success, and so none
\* of a plan that also passed the SafetyValidator and is shown, carries an
\* allergen tag that the restrictions name
C14_NoRestrictedAllergenServed ==
  (Called /\ LastCall.result.status = "success") =>
    \A food \in ServedFoods : food.allergens \cap RestrictedTags = {}

\* C15: in a plan returned with status success, every selected food is
\* vegan if the restrictions contain "vegan" and vegetarian if they contain
\* "vegetarian"
C15_VeganAndVegetarianHonoured ==
  (Called /\ LastCall.result.status = "success") =>
    /\ "vegan" \in SeqRange(LastCall.input.dietary_restrictions) =>
         \A food \in ServedFoods : food.vegan
    /\ "vegetarian" \in SeqRange(LastCall.input.dietary_restrictions) =>
         \A food \in ServedFoods : food.vegetarian

\* a vegan plan served from a catalog whose richest protein is meat, by a
\* recommender that has sorted its category lists in an earlier call
C15_Witness ==
  /\ Called
  /\ LastCall.result.status = "success"
  /\ "vegan" \in SeqRange(LastCall.input.dietary_restrictions)
  /\ \E food \in SeqRange(recommender.foods) :
       food.category = "protein" /\ ~food.vegan
  /\ \E food \in ServedFoods : food.category = "protein"
  /\ recommender.calls > 1
  /\ recommender.foods_by_category # _organize_by_category(recommender.foods)

\* C19: the daily calories of a plan returned with status success differ
\* from target_calories by at most 10%
C19_CaloriesWithinTenPercent ==
  (Called /\ LastCall.result.status = "success") =>
    LET target == 10 * LastCall.input.target_calories
        actual == LastCall.result.calories
    IN  10 * (IF actual > target THEN actual - target ELSE target - actual)
          <= target

\* C20: a generate_plan call with the inputs of the first call returns
\* what the first call returned, whatever calls were made in between
C20_GenerateIsDeterministic ==
  (Called /\ LastCall.input = Get(recommender.first).input) =>
    LastCall.result = Get(recommender.first).result

\* the first call is repeated after a call with other inputs, on a
\* recommender whose category lists the calls have reordered, and serves a
\* plan
C20_Witness ==
  /\ Called
  /\ recommender.calls = 3
  /\ recommender.mixed
  /\ LastCall.input = Get(recommender.first).input
  /\ LastCall.result.status = "success"
  /\ LastCall.result = Get(recommender.first).result
  /\ recommender.foods_by_category # _organize_by_category(recommender.foods)

\* C21: no generate_plan call changes the catalog: after any number of
\* calls every per-category list holds the foods it held after loading, in
\* the order of loading
C21_CatalogIsReadOnly ==
  recommender.foods_by_category = _organize_by_category(recommender.foods)

\* the categories the filter of the last call left without an eligible food
EmptiedCategories ==
  {category \in {"protein", "grain", "vegetable", "fat"} :
     LET foods == IF category = "grain"
                  THEN CategoryFoods(_organize_by_category(recommender.foods), "grain")
                       \o CategoryFoods(_organize_by_category(recommender.foods), "carb")
                  ELSE CategoryFoods(_organize_by_category(recommender.foods), category)
     IN  /\ foods # <<>>
         /\ \A i \in 1..Len(foods) :
              Excluded(foods[i], LastCall.input.dietary_restrictions)}

BuiltMeals ==
  BuildMeals(recommender.foods_by_category, 1,
             LastCall.input.target_calories,
             calculate_macros(LastCall.input.target_calories,
                              LastCall.input.fitness_goal),
             LastCall.input.dietary_restrictions)

\* the category of a selected food, grain and carb counted as one
StepOf(selected) ==
  LET food == CHOOSE f \in SeqRange(recommender.foods) : f.id = selected.id
  IN  IF food.category = "carb" THEN "grain" ELSE food.category

\* what the safety check of generate_plan accepts
PassesSafetyCheck(meals) ==
  /\ \A k \in 1..3 : meals[k].total_protein_g >= 200
  /\ \A k \in 1..Len(meals) : \A i \in 1..Len(meals[k].foods) :
       meals[k].foods[i].portion_g <= 500

Buildable ==
  /\ Called
  /\ DOMAIN LastCall.input
       = {"target_calories", "fitness_goal", "dietary_restrictions"}
  /\ LastCall.input.fitness_goal \in DOMAIN MACRO_RATIOS

\* a main meal of the plan lacks protein, or a portion is too large
ViolatesSafety(meals) ==
  \/ \E k \in 1..Len(meals) :
       /\ MEAL_DISTRIBUTION[k][1] \in {"breakfast", "lunch", "dinner"}
       /\ meals[k].total_protein_g < 10 * MIN_PROTEIN_PER_MEAL
  \/ \E k \in 1..Len(meals) : \E i \in 1..Len(meals[k].foods) :
       meals[k].foods[i].portion_g > MAX_PORTION

\* C31: a plan returned with status success has at least 20 g of protein
\* in each of breakfast, lunch and dinner and no portion above 500 g; when
\* the meals that build_meal returned violate either, the result is an
\* error without a meal plan
C31_SuccessMeansSafePlan ==
  Called =>
    /\ LastCall.result.status = "success" =>
         /\ Len(LastCall.result.meal_plan) = 4
         /\ ~ViolatesSafety(LastCall.result.meal_plan)
    /\ (Buildable /\ ~BuiltMeals.raised /\ ViolatesSafety(BuiltMeals.meals)) =>
         /\ LastCall.result.status = "error"
         /\ LastCall.result.meal_plan = <<>>

\* build_meal returned meals with enough protein and a portion above
\* 500 g, and the call answered with the error
C31_Witness ==
  /\ Called
  /\ Buildable
  /\ ~BuiltMeals.raised
  /\ \A k \in 1..3 : BuiltMeals.meals[k].total_protein_g >= 200
  /\ \E k \in 1..4 : \E i \in 1..Len(BuiltMeals.meals[k].foods) :
       BuiltMeals.meals[k].foods[i].portion_g > MAX_PORTION
  /\ LastCall.result.error = "Safety validation failed"

\* selected_foods of each meal when build_meal reaches its step 5, from
\* the k-th meal on
RECURSIVE SelectedBeforeScaling(_, _, _, _)
SelectedBeforeScaling(foods_by_category, k, daily_macros, restrictions) ==
  IF k > Len(MEAL_DISTRIBUTION) THEN <<>>
  ELSE Bind(FatStep(
              VegetableStep(
                GrainStep(
                  ProteinStep(MealSoFar(<<>>, foods_by_category, FALSE),
                              daily_macros.protein_g * MEAL_DISTRIBUTION[k][2],
                              restrictions),
                  daily_macros.carbs_g * MEAL_DISTRIBUTION[k][2], restrictions),
                restrictions),
              daily_macros.fat_g * MEAL_DISTRIBUTION[k][2], restrictions),
            LAMBDA step4 :
         IF step4.raised THEN <<>>
         ELSE <<step4.foods>>
                \o SelectedBeforeScaling(step4.foods_by_category, k + 1,
                                         daily_macros, restrictions))

\* the same for the last call
PreScale ==
  SelectedBeforeScaling(recommender.foods_by_category, 1,
                        calculate_macros(LastCall.input.target_calories,
                                         LastCall.input.fitness_goal),
                        LastCall.input.dietary_restrictions)

\* the calorie target generate_plan hands to build_meal for the k-th meal
MealTarget(k) ==
  MealCalories(LastCall.input.target_calories, MEAL_DISTRIBUTION[k][2])

\* the condition of the scale step for the k-th meal: the pre-scale total
\* is positive, f = target / total is in [0.7, 1.3] and |1 - f| > 0.03
\* (the total is in tenths of a kcal)
FactorInRange(k) ==
  LET total == Total(PreScale[k], "calories")
  IN  /\ 7 * total <= 100 * MealTarget(k)
      /\ 100 * MealTarget(k) <= 13 * total

ScaleApplies(k) ==
  LET total == Total(PreScale[k], "calories")
      target == 10 * MealTarget(k)
  IN  /\ total > 0
      /\ FactorInRange(k)
      /\ 100 * (IF target > total THEN target - total ELSE total - target)
           > 3 * total

\* x * f for the k-th meal, rounded as round() does
TimesFactor(x, k) ==
  RoundDiv(x * 10 * MealTarget(k), Total(PreScale[k], "calories"))

\* C39: for every meal that build_meal returns, if the scale condition
\* holds for the foods selected by steps 1 to 4, every portion and every
\* nutrition value of every food is the pre-scale value times f, rounded,
\* and the meal totals are the sums over the scaled foods; otherwise the
\* foods and the totals are the pre-scale ones, however far the total is
\* from the meal target.
C39_ScaleStepAppliesInRangeOnly ==
  (Buildable /\ ~BuiltMeals.raised) =>
    \A k \in 1..Len(MEAL_DISTRIBUTION) :
      LET before == PreScale[k]
          after  == BuiltMeals.meals[k]
      IN  /\ Len(after.foods) = Len(before)
          /\ after.total_calories = Total(after.foods, "calories")
          /\ after.total_protein_g = Total(after.foods, "protein_g")
          /\ IF ScaleApplies(k)
             THEN \A i \in 1..Len(before) :
                    /\ after.foods[i].id = before[i].id
                    /\ after.foods[i].portion_g = TimesFactor(before[i].portion_g, k)
                    /\ after.foods[i].calories = TimesFactor(before[i].calories, k)
                    /\ after.foods[i].protein_g = TimesFactor(before[i].protein_g, k)
                    /\ after.foods[i].carbs_g = TimesFactor(before[i].carbs_g, k)
                    /\ after.foods[i].fat_g = TimesFactor(before[i].fat_g, k)
             ELSE /\ after.foods = before
                  /\ after.total_calories = Total(before, "calories")

\* the plan of the last call has a meal that was scaled, a meal left alone
\* because its total is within 3% of the target, and a meal left alone
\* although f is outside [0.7, 1.3]
C39_Witness ==
  /\ Buildable
  /\ ~BuiltMeals.raised
  /\ \E k \in 1..4 : ScaleApplies(k) /\ BuiltMeals.meals[k].foods # PreScale[k]
  /\ \E k \in 1..4 : /\ ~FactorInRange(k)
                     /\ Total(PreScale[k], "calories") > 0
                     /\ BuiltMeals.meals[k].foods = PreScale[k]


\* the sum of the calorie targets of the four meals of the last call
SumOfMealTargets ==
  MealTarget(1) + MealTarget(2) + MealTarget(3) + MealTarget(4)

\* the k-th meal is within 3% of its own calorie target
OnTarget(meal, k) ==
  /\ 100 * meal.total_calories >= 970 * MealTarget(k)
  /\ 100 * meal.total_calories <= 1030 * MealTarget(k)

\* C40: the calorie targets that generate_plan hands to build_meal for the
\* four meals add up to 105% of target_calories, less at most one kcal per
\* meal lost by int(), and so to more than target_calories; the daily
\* calories of a plan are the sum of its meals, so that a plan whose meals
\* are all on their own targets has 105% of target_calories, within the
\* tolerance of the meals.
C40_MealTargetsSumTo105Percent ==
  (Buildable /\ LastCall.input.target_calories > 0) =>
    /\ 100 * SumOfMealTargets <= 105 * LastCall.input.target_calories
    /\ 100 * SumOfMealTargets >= 105 * LastCall.input.target_calories - 400
    /\ SumOfMealTargets > LastCall.input.target_calories
    /\ LastCall.result.status = "success" =>
         /\ LastCall.result.calories
              = Total(LastCall.result.meal_plan, "total_calories")
         /\ (\A k \in 1..4 : OnTarget(LastCall.result.meal_plan[k], k)) =>
              /\ 100 * LastCall.result.calories >= 970 * SumOfMealTargets
              /\ 100 * LastCall.result.calories <= 1030 * SumOfMealTargets
              /\ LastCall.result.calories > 10 * LastCall.input.target_calories

\* a plan was returned whose four meals are each on their own target and
\* whose daily calories exceed target_calories by more than 3%
C40_Witness ==
  /\ Buildable
  /\ LastCall.result.status = "success"
  /\ \A k \in 1..4 : OnTarget(LastCall.result.meal_plan[k], k)
  /\ 100 * LastCall.result.calories > 1030 * LastCall.input.target_calories

\* the dict of the last call lacks a key that generate_plan reads without
\* a default, or names a goal that calculate_macros does not know
Unusable ==
  \/ {"target_calories", "fitness_goal"} \ DOMAIN LastCall.input # {}
  \/ LastCall.input.fitness_goal \notin DOMAIN MACRO_RATIOS

\* the last call failed inside the try block: a missing key, an unknown
\* goal, a division by zero
FailedInside ==
  \/ Unusable
  \/ Buildable /\ (LastCall.input.target_calories = 0 \/ BuiltMeals.raised)

\* C32: generate_plan returns a result for every input, with status
\* success or error; an unknown goal, a missing key or a failure inside
\* gives status error and no meal plan; status success comes with a plan
\* of four meals and the daily calories, the sum over the meals
C32_NeverRaises ==
  Called =>
    /\ LastCall.result.status \in {"success", "error"}
    /\ LastCall.result.status = "error" =>
         LastCall.result.meal_plan = <<>> /\ LastCall.result.error # ""
    /\ FailedInside => LastCall.result.status = "error"
    /\ LastCall.result.status = "success" =>
         /\ ~Unusable
         /\ Len(LastCall.result.meal_plan) = 4
         /\ LastCall.result.calories
              = Total(LastCall.result.meal_plan, "total_calories")

\* a call with an unknown goal was answered with an error
C32_Witness ==
  /\ Called
  /\ "fitness_goal" \in DOMAIN LastCall.input
  /\ "target_calories" \in DOMAIN LastCall.input
  /\ LastCall.input.fitness_goal \notin DOMAIN MACRO_RATIOS
  /\ LastCall.result.status = "error"
  /\ LastCall.result.meal_plan = <<>>


(***************************************************************************)
(* Properties of a scripted dialogue through the whole pipeline            *)
(* (specification SpecScript).                                             *)
(***************************************************************************)
\* the message of the last call
Sent == script.messages[script.pos]

\* the profile the user has after the last call
ProfileNow == conversations[ScriptUser].profile

StateNow == conversations[ScriptUser].current_state

\* the last call built a plan and the safety check of the food recommender
\* rejected it
EngineRejected ==
  /\ <<"generate_plan", "failed">> \in last.calls
  /\ LastCall.result.error = "Safety validation failed"

\* the last call got a plan and the SafetyValidator rejected it
ValidatorRejected == <<"validate", "failed">> \in last.calls

\* C23: when the plan generated in a call fails validation, the response
\* carries the first violation as the reason and the guidance that goes
\* with its kind, no plan is shown and current_state is ready_for_plan
C23_RejectionReportsFirstViolation ==
  (script.pos > 0 /\ (EngineRejected \/ ValidatorRejected)) =>
    /\ IsNone(response.plan)
    /\ StateNow = STATE_READY_FOR_PLAN
    /\ response.reason # ""
    /\ response.kind =
         IF Contains(Lower(response.reason), "portion too small")
         THEN "unsafe_portion_guidance"
         ELSE IF Contains(Lower(response.reason), "allergen")
         THEN "unsafe_allergen_guidance"
         ELSE "unsafe_other_guidance"
    /\ ValidatorRejected =>
         response.reason =
           validate_meal_plan(AsValidatorPlan(LastCall.result.meal_plan),
                              LastCall.input.target_calories,
                              LastCall.input.dietary_restrictions).errors[1]


\* the dialogue of the scenario, and the six messages of the tests
VegScript == <<"hi", "gain muscle", "70", "170", "25", "veg", "moderate">>

SixScript == <<"hi", "lose weight", "70", "170", "25", "moderate">>

\* C25: a new user sending hi, gain muscle, 70, 170, 25, veg, moderate is
\* taken through greeting, goal, weight, height, age, diet and activity,
\* one state per message, and when predict, generate_plan, the validator
\* and the formatting succeed in the seventh call, the dialogue ends in
\* showing_roadmap with the plan generate_plan returned for restrictions
\* that include vegetarian
C25_ScenarioEndsInPlan ==
  script.messages = VegScript =>
    /\ script.pos = 0 => ScriptUser \notin DOMAIN conversations
    /\ script.pos \in 1..7 => last.state_in = STATE_ORDER[script.pos]
    /\ script.pos \in 1..6 => StateNow = STATE_ORDER[script.pos + 1]
    /\ script.pos = 6 => ProfileNow.dietary_restrictions = <<"vegetarian">>
    /\ (script.pos = 7
          /\ Succeeded = {"predict", "generate_plan", "validate", "format"}) =>
         /\ StateNow = STATE_SHOWING_ROADMAP
         /\ ProfileNow.fitness_goal = Some("muscle_gain")
         /\ response.kind = "plan"
         /\ response.plan = Some(AsValidatorPlan(LastCall.result.meal_plan))
         /\ "vegetarian" \in SeqRange(LastCall.input.dietary_restrictions)
         /\ \A food \in ServedFoods : food.vegetarian

\* the scenario ends with a vegetarian plan on the screen
C25_Witness ==
  /\ script.messages = VegScript
  /\ script.pos = 7
  /\ StateNow = STATE_SHOWING_ROADMAP
  /\ response.kind = "plan"
  /\ LastCall.input.dietary_restrictions = <<"vegetarian">>
  /\ ServedFoods # {}

C27_NonVegStoresNoRestriction ==
  (script.pos > 0 /\ last.state_in = STATE_ONBOARDING_DIET) =>
    IF Contains(Strip(Lower(Sent)), "non")
    THEN /\ ProfileNow.dietary_restrictions = <<>>
         /\ StateNow = STATE_ONBOARDING_ACTIVITY
    ELSE IF ContainsAny(Strip(Lower(Sent)), <<"veg", "vegetarian", "vegan">>)
    THEN /\ ProfileNow.dietary_restrictions = <<"vegetarian">>
         /\ StateNow = STATE_ONBOARDING_ACTIVITY
    ELSE /\ StateNow = STATE_ONBOARDING_DIET
         /\ last.wrote = {}
         /\ response.kind = "diet_reprompt"

\* some synonym of the k-th category of the table is a substring of the
\* lower-cased message
Matches(message, mapping, k) ==
  \E i \in 1..Len(mapping[k][2]) : Contains(Lower(message), mapping[k][2][i])

\* the k-th category matches and none before it does
FirstMatch(message, mapping, k) ==
  /\ Matches(message, mapping, k)
  /\ \A j \in 1..(k - 1) : ~Matches(message, mapping, j)

\* C28: the goal and the activity level stored for a message are the first
\* category of the table, in table order, with a synonym that is a
\* substring of the lower-cased message; a message without any is
\* re-prompted and nothing is stored; the message "active" is stored as
\* moderate
C28_FirstCategoryInTableOrderWins ==
  script.pos > 0 =>
    /\ last.state_in = STATE_ONBOARDING_GOAL =>
         IF \E k \in 1..Len(GOALS) : Matches(Sent, GOALS, k)
         THEN /\ \E k \in 1..Len(GOALS) :
                   /\ FirstMatch(Sent, GOALS, k)
                   /\ ProfileNow.fitness_goal = Some(GOALS[k][1])
              /\ StateNow = STATE_ONBOARDING_WEIGHT
         ELSE /\ IsNone(ProfileNow.fitness_goal)
              /\ StateNow = STATE_ONBOARDING_GOAL
              /\ response.kind = "goal_reprompt"
    /\ last.state_in = STATE_ONBOARDING_ACTIVITY =>
         IF \E k \in 1..Len(ACTIVITY_LEVELS) : Matches(Sent, ACTIVITY_LEVELS, k)
         THEN /\ \E k \in 1..Len(ACTIVITY_LEVELS) :
                   /\ FirstMatch(Sent, ACTIVITY_LEVELS, k)
                   /\ ProfileNow.activity_level = Some(ACTIVITY_LEVELS[k][1])
              /\ StateNow \in {STATE_READY_FOR_PLAN, STATE_SHOWING_ROADMAP}
         ELSE /\ IsNone(ProfileNow.activity_level)
              /\ StateNow = STATE_ONBOARDING_ACTIVITY
              /\ response.kind = "activity_reprompt"
    /\ (last.state_in = STATE_ONBOARDING_ACTIVITY /\ Sent = "active") =>
         ProfileNow.activity_level = Some("moderate")

\* the message "active", which is a synonym of moderate and of active, was
\* classified, after a goal message with synonyms of two goals
C28_Witness ==
  /\ script.pos = 7
  /\ last.state_in = STATE_ONBOARDING_ACTIVITY
  /\ Sent = "active"
  /\ ProfileNow.activity_level = Some("moderate")
  /\ script.messages[2] = "gain but lose"
  /\ ProfileNow.fitness_goal = Some("weight_loss")


\* the last call got a roadmap from the predictor and went on to the food
\* recommender
Generated == script.pos > 0 /\ <<"predict", "ok">> \in last.calls

\* C34: the food recommender is called with the target_calories the
\* predictor returned for the profile, and with the fitness_goal and the
\* dietary_restrictions of the profile; the plan is shown only if the
\* validator accepts it for this target and these restrictions; a
\* muscle_gain plan that is shown was generated for at least 2200 kcal
C34_TargetIsThePredictorsOutput ==
  Generated =>
    /\ Called
    /\ LastCall.input.target_calories
         = predict(ProfileNow, script.raw).target_calories
    /\ LastCall.input.fitness_goal = Get(ProfileNow.fitness_goal)
    /\ LastCall.input.dietary_restrictions = ProfileNow.dietary_restrictions
    /\ LastCall.shown =>
         validate_meal_plan(AsValidatorPlan(LastCall.result.meal_plan),
                            LastCall.input.target_calories,
                            LastCall.input.dietary_restrictions).ok
    /\ (StateNow = STATE_SHOWING_ROADMAP
          /\ ProfileNow.fitness_goal = Some("muscle_gain")) =>
         LastCall.input.target_calories >= 2200

\* a muscle_gain plan is shown; the pickled model had returned 1800 kcal
\* and the plan was generated for the floor of 2400 kcal
C34_Witness ==
  /\ Generated
  /\ StateNow = STATE_SHOWING_ROADMAP
  /\ ProfileNow.fitness_goal = Some("muscle_gain")
  /\ script.raw = [kind |-> "finite", v |-> NumOf(1800)]
  /\ LastCall.input.target_calories = MUSCLE_GAIN_MIN_OTHER
  /\ LastCall.shown

(***************************************************************************)
(* Properties of the HTTP endpoints (specification SpecApp)                *)
(***************************************************************************)
Answered(endpoint) == ~IsNone(app) /\ Get(app).endpoint = endpoint

WellFormed(data) ==
  ~IsNone(data) /\ Get(data).user_id # "" /\ Get(data).message # ""

\* C29: a /chat request with a non-empty user_id and a non-empty message is
\* handed to the dialogue state machine and answered 200 with status
\* success, the response text, the user's current state and the week.
C29_ChatAnswersSuccess ==
  (Answered("chat") /\ WellFormed(Get(app).data)) =>
    /\ Get(app).code = 200
    /\ Get(app).body.status = "success"
    /\ DOMAIN Get(app).body = {"status", "response", "state", "week"}
    /\ Get(Get(app).data).user_id \in DOMAIN conversations

ResetFor(user_id) ==
  /\ Answered("reset")
  /\ ~IsNone(Get(app).data)
  /\ Get(Get(app).data).user_id = user_id

\* the record the in-dialogue reset token leaves for user_id
AfterResetToken(user_id) ==
  process_message(Get(app).before, now, user_id, "reset", NoEnv)
    .conversations[user_id]

\* C30: the reset endpoint called for an existing user, whatever the state,
\* answers success and leaves the user at the greeting with an all-unset
\* profile, as the in-dialogue reset token does, and the file holds the
\* store; called for an unknown user it answers success, creates no record
\* and leaves store and file alone.  No other user is touched.
C30_ResetEndpointMatchesDialogueReset ==
  \A user_id \in {"u1", "u2", "u3"} :
    ResetFor(user_id) =>
      /\ Get(app).code = 200
      /\ Get(app).body.status = "success"
      /\ DOMAIN conversations = DOMAIN Get(app).before
      /\ \A other \in DOMAIN conversations \ {user_id} :
           conversations[other] = Get(app).before[other]
      /\ IF user_id \in DOMAIN Get(app).before
         THEN /\ conversations[user_id].current_state = STATE_GREETING
              /\ conversations[user_id].profile = NewProfile
              /\ conversations[user_id].current_state
                   = AfterResetToken(user_id).current_state
              /\ conversations[user_id].profile
                   = AfterResetToken(user_id).profile
              /\ conversations[user_id].message_count
                   = AfterResetToken(user_id).message_count
              /\ disk = Serialize(conversations)
         ELSE /\ conversations = Get(app).before
              /\ disk = Get(app).disk_before

\* a user who had been shown a plan was reset through the endpoint, and an
\* unknown user was answered too
C30_Witness ==
  /\ ResetFor("u1")
  /\ Get(app).code = 200
  /\ "u1" \in DOMAIN Get(app).before
  /\ Get(app).before["u1"].current_state = STATE_SHOWING_ROADMAP
  /\ Get(app).before["u1"].profile # NewProfile
  /\ conversations["u1"].current_state = STATE_GREETING
  /\ "u2" \in DOMAIN conversations
  /\ conversations["u2"].profile # NewProfile

(***************************************************************************)
(* Properties of the pipeline (specification SpecPipeline)                 *)
(***************************************************************************)
Requested == ~IsNone(pipeline.result)

\* what the storage file of the pipeline holds
Storage == _read_storage(pipeline.file).items

\* the week a user had when the pipeline started: 1 for a user it created
StartWeek(user_id) ==
  IF user_id \in DOMAIN pipeline.start THEN pipeline.start[user_id].week
  ELSE DEFAULT_PROFILE.week

\* the week the user of the last request had before it
WeekBefore ==
  IF pipeline.user_id \in DOMAIN pipeline.before
  THEN pipeline.before[pipeline.user_id].week
  ELSE DEFAULT_PROFILE.week

PlanServed ==
  /\ Get(pipeline.result).status = "success"
  /\ Get(pipeline.result).intent \in PLAN_INTENTS

Predicted == ~IsNone(predicted.roadmap)

TargetCalories == Get(predicted.roadmap).target_calories

\* C35: for every raw output, finite or not, zero or negative, the
\* target_calories predict returns is an integer of at least 1000; for the
\* goal muscle_gain it is at least 2400, 2700 for gender male; for the goal
\* weight_loss at least 1200, 1500 for gender male
C35_PredictFloors ==
  Predicted =>
    /\ TargetCalories \in Int
    /\ TargetCalories >= 1000
    /\ predicted.user_state.fitness_goal = Some("muscle_gain") =>
         TargetCalories >= IF predicted.user_state.gender = "male"
                           THEN 2700 ELSE 2400
    /\ predicted.user_state.fitness_goal = Some("weight_loss") =>
         TargetCalories >= IF predicted.user_state.gender = "male"
                           THEN 1500 ELSE 1200

\* the model returned 999.9 kcal for a muscle_gain user who is not male,
\* and predict answered 2400
C35_Witness ==
  /\ Predicted
  /\ predicted.raw = [kind |-> "finite", v |-> [n |-> 9999, d |-> 10]]
  /\ predicted.user_state.fitness_goal = Some("muscle_gain")
  /\ predicted.user_state.gender = "female"
  /\ TargetCalories = MUSCLE_GAIN_MIN_OTHER
================================================================
